---- MODULE Spec2Model ----
(***************************************************************************)
(* The LFU cache shard of butils/vectormap (LFUMap): a Swiss-table style   *)
(* index (ctrl / groups / counters) over one byte arena (kvHolder).        *)
(*                                                                         *)
(* The shard operations are translated from src/unnamed/part_002.  The     *)
(* arena is modelled byte for byte: keys are 16 bytes, value headers are   *)
(* little-endian 32-bit words, values are byte strings.  Groups and slots  *)
(* are numbered from 1 here (the source numbers them from 0), so           *)
(* probeStart adds 1 and the wrap-around goes back to 1.                   *)
(*                                                                         *)
(* The table geometry and the value-size thresholds are scaled down (see   *)
(* the bounds below) so that full groups, rehash, every value layout and   *)
(* arena exhaustion are all reached with a handful of keys.                *)
(***************************************************************************)
EXTENDS Integers, Sequences, FiniteSets, TLC

(***************************************************************************)
(* Bounds.  The source's values are given in the comments; the model keeps *)
(* their order (maxAvgGroupLoad < groupSize, overShortSize < overLongSize  *)
(* < limitSize).                                                           *)
(***************************************************************************)
\* slots per group (16 in the source, part_002:1117)
groupSize == 3
\* average load per group that triggers rehash (14 in the source, part_002:1118)
maxAvgGroupLoad == 2
\* saturation value of a slot counter (255 in the source)
maxCount == 2
\* first value length that no longer uses the small-inline layout (256)
overShortSize == 19
\* first value length that uses the long layout (32768)
overLongSize == 20
\* first value length that is rejected (2^24)
limitSize == 21
\* arena capacity of the shard in bytes (memCap / buckets)
memMax == 92
\* arena capacity of the wide shard, which holds three records
memWide == 128
\* arena capacity of the shard that holds four records
memGrow == 168
\* arena capacity of the shard that holds one record
memOne == 52
\* number of distinct keys the callers use
NumKeys == 3
\* Has calls are issued while queryCnt is below this
MaxQuery == 2
\* number of reader threads
NumReaders == 2
\* number of threads that run calls against the locks
NumThreads == 2
\* size of the offset field of a descriptor and of a value header (2^24 in
\* the source; TLC's integers are 32 bits wide, so the words are narrower)
idxOffsetSize == 65536
\* size of an unsigned machine word (2^32 in the source)
uint32Size == 1073741824

(***************************************************************************)
(* Program constants that are not scaled.                                  *)
(***************************************************************************)
empty == -128
tombstone == -2
\* the type bit of a descriptor (the bit above the 7-bit capacity field):
\* the value uses the big-size layout
mapTypeHeader == 128 * idxOffsetSize
\* the arena's first record starts here, so that no descriptor is 0
kvHolderStart == 4

Min(S) == CHOOSE x \in S : \A y \in S : x <= y
Max(S) == CHOOSE x \in S : \A y \in S : x >= y
\* uint32 arithmetic
U32(x) == x % uint32Size

(***************************************************************************)
(* Keys, hashes and values the callers use.                                *)
(***************************************************************************)
Keys == 1..NumKeys
Readers == 1..NumReaders
\* a key is a 16-byte fingerprint
KeyBytes(k) == [i \in 1..16 |-> k]
\* the 64-bit hash of a key (md5hash.MD5HL, low half), H1 * 128 + H2: keys 1
\* and 2 start in the same group of a table of 1 or 2 groups and in different
\* groups of one of 3; key 3 has the hash of key 1
MD5HL(kb) ==
  LET k == kb[1]
  IN CASE k = 1 -> 1 * 128 + 5
       [] k = 2 -> 3 * 128 + 6
       [] k = 3 -> 1 * 128 + 5
       [] OTHER -> k * 128 + 5
h(k) == MD5HL(KeyBytes(k))

\* the values the callers write: two small ones of equal capacity, a medium
\* one, a long one and one of the rejected size
Fill(n, b) == [i \in 1..n |-> b]
Values ==
  << Fill(overShortSize - 2, 17), Fill(overShortSize - 1, 34),
     Fill(overShortSize, 51),
     Fill(overLongSize, 68), Fill(limitSize, 85) >>
NumVals == Len(Values)
\* the ways PutMultiValue's argument splits value v into pieces
Splits(v) ==
  { << SubSeq(v, 1, 1), SubSeq(v, 2, Len(v)) >> }

VARIABLES
  ctrl,       \* m.ctrl: per group, the control byte of each slot
  groups,     \* m.groups: per group, the descriptor (kIdx) of each slot
  counters,   \* m.counters: per group, the LFU counter of each slot
  data,       \* m.kvHolder.data: the arena bytes
  tail,       \* m.kvHolder.tail
  items,      \* m.kvHolder.items
  valUsed,    \* m.kvHolder.valUsed
  resident,   \* m.resident
  dead,       \* m.dead
  limit,      \* m.limit
  rehashing,  \* m.rehashing
  queryCnt,   \* m.queryCnt
  missCnt,    \* m.missCnt
  readers,    \* per reader thread: where its Has is, and its locals
  rePut,      \* the RePut in flight: where it is, and its arguments
  gcCopy,     \* the GCCopy in flight: where it is, and its locals
  putLock,    \* m.putLock: the thread that holds it, or 0
  rehashLock, \* m.rehashLock: its writer and its readers
  mutex,      \* m.kvHolder.mutex: its writer and its readers
  calls,      \* per thread: the call it runs and the statement it is at
  get         \* the Get in flight: where it is, and its locals

shardVars == << ctrl, groups, counters, data, tail, items, valUsed,
                resident, dead, limit >>
lockVars == << putLock, rehashLock, mutex, calls >>
threadVars == << readers, rePut, gcCopy, lockVars, get >>
vars == << ctrl, groups, counters, data, tail, items, valUsed,
           resident, dead, limit, rehashing, queryCnt, missCnt,
           readers, rePut, gcCopy, putLock, rehashLock, mutex, calls, get >>

\* the table and the arena as one record, the form the operations work on
Shard ==
  [ ctrl |-> ctrl, groups |-> groups, counters |-> counters, data |-> data,
    tail |-> tail, items |-> items, valUsed |-> valUsed,
    resident |-> resident, dead |-> dead, limit |-> limit ]

Install(m) ==
  /\ ctrl' = m.ctrl
  /\ groups' = m.groups
  /\ counters' = m.counters
  /\ data' = m.data
  /\ tail' = m.tail
  /\ items' = m.items
  /\ valUsed' = m.valUsed
  /\ resident' = m.resident
  /\ dead' = m.dead
  /\ limit' = m.limit

\* The callers' workload.  On the shard of capacity memMax the callers use
\* all keys but the last and write every layout to key 1 and one small value
\* to the others; on the wide shard they use every key and write the small
\* value only.
CallKeys == IF Cardinality(DOMAIN data) = memMax THEN 1..(NumKeys - 1) ELSE Keys
CallVals(k) ==
  IF Cardinality(DOMAIN data) = memMax /\ k = 1 THEN 1..NumVals ELSE {1}

(***************************************************************************)
(* Arena and descriptor primitives.                                        *)
(***************************************************************************)
Cap4Size(n) == ((n + 3) \div 4) * 4

\* kIdx: the offset field holds key offset / 4, the 7 bits above it the
\* capacity / 4 or the big size, the bit above those the value type
offset(k) == k % idxOffsetSize
capOrBigSize(k) == (k \div idxOffsetSize) % 128
valType(k) == k \div mapTypeHeader

\* the long layout's sentinel size, split over descriptor and header
overLongStoreHeaderH == (overLongSize \div 256) * idxOffsetSize
overLongStoreHeaderL == (overLongSize % 256) * idxOffsetSize

LoadUint32(d, o) ==
  d[o] + d[o + 1] * 256 + d[o + 2] * 65536 + d[o + 3] * 16777216
StoreUint32(d, o, x) ==
  [i \in DOMAIN d |->
     IF i >= o /\ i <= o + 3 THEN (x \div (256 ^ (i - o))) % 256 ELSE d[i]]
copy(d, o, v) ==
  [i \in DOMAIN d |-> IF i >= o /\ i < o + Len(v) THEN v[i - o + 1] ELSE d[i]]
Bytes(d, o, n) == [i \in 1..n |-> d[o + i - 1]]

newEmptyMetadata == [s \in 1..groupSize |-> empty]
newKVData(c) == [i \in 0..(c - 1) |-> 0]
\* m.kvHolder.cap: the arena's capacity in bytes
kvCap(m) == Cardinality(DOMAIN m.data)

\* kvHolder.getKey
getKey(m, kidx) == Bytes(m.data, offset(kidx) * 4, 16)

\* getValue reading the reserved capacity of a small value, not its length
getValueWholeCapacity(m, kidx) ==
  LET kEnd == offset(kidx) * 4 + 16
      vHeader == LoadUint32(m.data, kEnd)
      vOffset == (vHeader % idxOffsetSize) * 4
      vSmall == vHeader \div idxOffsetSize
  IN IF valType(kidx) = 0
       THEN Bytes(m.data, vOffset, capOrBigSize(kidx) * 4)
       ELSE LET vSize == vSmall + capOrBigSize(kidx) * 256
            IN IF vSize = overLongSize
                 THEN Bytes(m.data, vOffset + 4, LoadUint32(m.data, vOffset))
                 ELSE Bytes(m.data, vOffset, vSize)

\* the value a descriptor points at, as Get reads it (part_002:177-198)
getValue(m, kidx) ==
  LET kEnd == offset(kidx) * 4 + 16
      vHeader == LoadUint32(m.data, kEnd)
      vOffset == (vHeader % idxOffsetSize) * 4
      vSmall == vHeader \div idxOffsetSize
  IN IF valType(kidx) = 0
       THEN Bytes(m.data, vOffset, vSmall)
       ELSE LET vSize == vSmall + capOrBigSize(kidx) * 256
            IN IF vSize = overLongSize
                 THEN Bytes(m.data, vOffset + 4, LoadUint32(m.data, vOffset))
                 ELSE Bytes(m.data, vOffset, vSize)

\* the value Get copies out when it has loaded header vHeader and then finds
\* descriptor kidx in the slot (part_002:181-198)
getValueAs(m, kidx, vHeader) ==
  LET vOffset == (vHeader % idxOffsetSize) * 4
      vSmall == vHeader \div idxOffsetSize
  IN IF valType(kidx) = 0
       THEN Bytes(m.data, vOffset, vSmall)
       ELSE LET vSize == vSmall + capOrBigSize(kidx) * 256
            IN IF vSize = overLongSize
                 THEN Bytes(m.data, vOffset + 4, LoadUint32(m.data, vOffset))
                 ELSE Bytes(m.data, vOffset, vSize)

\* the amount an update takes off valUsed for the value it replaces
\* (part_002:241-253 and its copies)
oldValUsed(m, kidx) ==
  LET kEnd == offset(kidx) * 4 + 16
      vHeader == LoadUint32(m.data, kEnd)
  IN IF valType(kidx) = 0
       THEN capOrBigSize(kidx)
       ELSE LET vSize == vHeader \div idxOffsetSize + capOrBigSize(kidx) * 256
            IN IF vSize = overLongSize
                 THEN Cap4Size(LoadUint32(m.data, (vHeader % idxOffsetSize) * 4)) + 4
                 ELSE Cap4Size(vSize)

(***************************************************************************)
(* Probing.                                                                *)
(***************************************************************************)
splitHashHi(l) == l \div 128
splitHashLo(l) == l % 128
probeStart(hi, n) == (hi % n) + 1

metaMatchH2(md, lo) == { s \in 1..groupSize : md[s] = lo }
\* a match that takes tombstones for empty slots
metaMatchFree(md) == { s \in 1..groupSize : md[s] = empty \/ md[s] = tombstone }
metaMatchEmpty(md) == { s \in 1..groupSize : md[s] = empty }

\* The probe loop shared by Has, Put, PutMultiValue, RePut and Delete: the
\* first slot whose tag and key match ("hit"), else the first empty slot of
\* the first group that has one ("empty"); "spin" when the loop has been
\* round the whole table without either, which is where the source's
\* for-loop never ends.  n counts the groups looked at.
RECURSIVE probe(_, _, _, _, _)
probe(m, g, lo, key, n) ==
  LET hits == { s \in metaMatchH2(m.ctrl[g], lo) : getKey(m, m.groups[g][s]) = key }
      empties == metaMatchEmpty(m.ctrl[g])
  IN IF hits # {} THEN [kind |-> "hit", g |-> g, s |-> Min(hits), n |-> n]
     ELSE IF empties # {} THEN [kind |-> "empty", g |-> g, s |-> Min(empties), n |-> n]
     ELSE IF n >= Len(m.ctrl) THEN [kind |-> "spin", g |-> g, s |-> 0, n |-> n]
     ELSE probe(m, IF g + 1 > Len(m.groups) THEN 1 ELSE g + 1, lo, key, n + 1)

\* Get's probe loop, which also skips a slot whose descriptor is 0
RECURSIVE probeGet(_, _, _, _, _)
probeGet(m, g, lo, key, n) ==
  LET hits == { s \in metaMatchH2(m.ctrl[g], lo) :
                  m.groups[g][s] # 0 /\ getKey(m, m.groups[g][s]) = key }
      empties == metaMatchEmpty(m.ctrl[g])
  IN IF hits # {} THEN [kind |-> "hit", g |-> g, s |-> Min(hits), n |-> n]
     ELSE IF empties # {} THEN [kind |-> "empty", g |-> g, s |-> Min(empties), n |-> n]
     ELSE IF n >= Len(m.ctrl) THEN [kind |-> "spin", g |-> g, s |-> 0, n |-> n]
     ELSE probeGet(m, IF g + 1 > Len(m.groups) THEN 1 ELSE g + 1, lo, key, n + 1)

find(m, l, key) ==
  probe(m, probeStart(splitHashHi(l), Len(m.groups)), splitHashLo(l), key, 1)
findGet(m, l, key) ==
  probeGet(m, probeStart(splitHashHi(l), Len(m.groups)), splitHashLo(l), key, 1)

\* what Get(l, key) returns in shard m
GetResult(m, l, key) ==
  LET p == findGet(m, l, key)
  IN IF p.kind = "hit"
       THEN [ok |-> TRUE, value |-> getValue(m, m.groups[p.g][p.s])]
       ELSE [ok |-> FALSE, value |-> << >>]

\* LFUMap.add: the saturating bump of a slot counter
add(c) == IF c < maxCount THEN c + 1 ELSE c

(***************************************************************************)
(* Updates of an existing key.                                             *)
(***************************************************************************)
\* the failure path without the decrement of items
tombstoneSlotKeepsItems(m, g, s) ==
  [m EXCEPT !.ctrl[g][s] = tombstone,
            !.dead = U32(@ + 1),
            !.counters[g][s] = 0]

\* the failure path without the increment of dead
tombstoneSlotNotCounted(m, g, s) ==
  [m EXCEPT !.ctrl[g][s] = tombstone,
            !.counters[g][s] = 0,
            !.items = U32(@ - 1)]

\* the failure path of an update: the slot becomes a tombstone
\* (part_002:237-240, 274-277 and their copies)
tombstoneSlot(m, g, s) ==
  [m EXCEPT !.ctrl[g][s] = tombstone,
            !.dead = U32(@ + 1),
            !.counters[g][s] = 0,
            !.items = U32(@ - 1)]

\* an update that returns true and writes nothing
PutUpdateKeepsBytes(m, g, s, value) == [m |-> m, ok |-> TRUE]

\* an update that returns false and leaves the slot
PutUpdateRefuses(m, g, s, value) == [m |-> m, ok |-> FALSE]

\* Put's update of the slot (g, s) that holds the key (part_002:231-372)
PutUpdate(m, g, s, value) ==
  LET kidx == m.groups[g][s]
      kOffset == offset(kidx) * 4
      kEnd == kOffset + 16
      vHeader == LoadUint32(m.data, kEnd)
      vType == valType(kidx)
      lv == Len(value)
      sub == oldValUsed(m, kidx)
      m1 == [m EXCEPT !.valUsed = U32(@ - sub)]
  IN IF lv >= limitSize
       THEN [m |-> tombstoneSlot(m1, g, s), ok |-> FALSE]
     ELSE IF lv >= overLongSize
       THEN LET vCap == Cap4Size(lv) + 4
                ntail == m.tail + 20 + vCap
                vOffset == m.tail
            IN IF ntail > kvCap(m)
                 THEN [m |-> tombstoneSlot(m1, g, s), ok |-> FALSE]
                 ELSE [m |-> [m1 EXCEPT
                         !.data = StoreUint32(
                                    copy(StoreUint32(@, vOffset, lv), vOffset + 4, value),
                                    kEnd, vOffset \div 4 + overLongStoreHeaderL),
                         !.groups[g][s] = kOffset \div 4 + overLongStoreHeaderH + mapTypeHeader,
                         !.tail = ntail,
                         !.valUsed = U32(@ + vCap)],
                       ok |-> TRUE]
     ELSE IF lv >= overShortSize
       THEN LET vCap == Cap4Size(lv)
                ntail == m.tail + vCap
                vBig == (lv % 32768) \div 256
                vSmall == lv % 256
            IN IF ntail > kvCap(m)
                 THEN [m |-> tombstoneSlot(m1, g, s), ok |-> FALSE]
                 ELSE [m |-> [m1 EXCEPT
                         !.data = StoreUint32(copy(@, m.tail, value),
                                              kEnd, m.tail \div 4 + vSmall * idxOffsetSize),
                         !.groups[g][s] = kOffset \div 4 + vBig * idxOffsetSize + mapTypeHeader,
                         !.tail = ntail,
                         !.valUsed = U32(@ + vCap)],
                       ok |-> TRUE]
     ELSE IF vType = 0 /\ lv <= capOrBigSize(kidx) * 4 /\ lv < overShortSize
       THEN LET vOffset == vHeader % idxOffsetSize
            IN [m |-> [m EXCEPT
                  !.data = copy(StoreUint32(@, kEnd, vOffset + lv * idxOffsetSize),
                                vOffset * 4, value)],
                ok |-> TRUE]
     ELSE LET vCap == Cap4Size(lv)
              ntail == m.tail + vCap
          IN IF ntail > kvCap(m)
               THEN [m |-> [tombstoneSlot(m1, g, s) EXCEPT !.groups[g][s] = 0],
                     ok |-> FALSE]
               ELSE [m |-> [m1 EXCEPT
                       !.data = StoreUint32(copy(@, m.tail, value),
                                            kEnd, m.tail \div 4 + lv * idxOffsetSize),
                       !.groups[g][s] = kOffset \div 4 + (vCap \div 4) * idxOffsetSize,
                       !.tail = ntail,
                       !.valUsed = U32(@ + vCap)],
                     ok |-> TRUE]

\* the pieces of PutMultiValue's vals copied one after the other from o on
RECURSIVE copyVals(_, _, _)
copyVals(d, o, vals) ==
  IF vals = << >> THEN d
  ELSE copyVals(copy(d, o, Head(vals)), o + Len(Head(vals)), Tail(vals))

\* PutMultiValue's update that stores the first piece only
PutMultiValueUpdateFirstPiece(m, g, s, vlen, vals) ==
  PutUpdate(m, g, s, Head(vals))

\* PutMultiValue's update of the slot (g, s) that holds the key
\* (part_002:398-551)
PutMultiValueUpdate(m, g, s, vlen, vals) ==
  LET kidx == m.groups[g][s]
      kOffset == offset(kidx) * 4
      kEnd == kOffset + 16
      vHeader == LoadUint32(m.data, kEnd)
      vType == valType(kidx)
      sub == oldValUsed(m, kidx)
      m1 == [m EXCEPT !.valUsed = U32(@ - sub)]
  IN IF vlen >= limitSize
       THEN [m |-> tombstoneSlot(m1, g, s), ok |-> FALSE]
     ELSE IF vlen >= overLongSize
       THEN LET vCap == Cap4Size(vlen) + 4
                ntail == m.tail + 20 + vCap
                vOffset == m.tail
            IN IF ntail > kvCap(m)
                 THEN [m |-> tombstoneSlot(m1, g, s), ok |-> FALSE]
                 ELSE [m |-> [m1 EXCEPT
                         !.data = StoreUint32(
                                    copyVals(StoreUint32(@, vOffset, vlen), vOffset + 4, vals),
                                    kEnd, vOffset \div 4 + overLongStoreHeaderL),
                         !.groups[g][s] = kOffset \div 4 + overLongStoreHeaderH + mapTypeHeader,
                         !.tail = ntail,
                         !.valUsed = U32(@ + vCap)],
                       ok |-> TRUE]
     ELSE IF vlen >= overShortSize
       THEN LET vCap == Cap4Size(vlen)
                ntail == m.tail + vCap
                vBig == (vlen % 32768) \div 256
                vSmall == vlen % 256
                vOffset == m.tail
            IN IF ntail > kvCap(m)
                 THEN [m |-> tombstoneSlot(m1, g, s), ok |-> FALSE]
                 ELSE [m |-> [m1 EXCEPT
                         !.data = StoreUint32(copyVals(@, vOffset, vals),
                                              kEnd, vOffset \div 4 + vSmall * idxOffsetSize),
                         !.groups[g][s] = kOffset \div 4 + vBig * idxOffsetSize + mapTypeHeader,
                         !.tail = ntail,
                         !.valUsed = U32(@ + vCap)],
                       ok |-> TRUE]
     ELSE IF vType = 0 /\ vlen <= capOrBigSize(kidx) * 4 /\ vlen < overShortSize
       THEN LET vOffset == vHeader % idxOffsetSize
            IN [m |-> [m EXCEPT
                  !.data = copyVals(StoreUint32(@, kEnd, vOffset + vlen * idxOffsetSize),
                                    vOffset * 4, vals)],
                ok |-> TRUE]
     ELSE LET vCap == Cap4Size(vlen)
              ntail == m.tail + vCap
              vOffset == m.tail
          IN IF ntail > kvCap(m)
               THEN [m |-> [tombstoneSlot(m1, g, s) EXCEPT !.groups[g][s] = 0],
                     ok |-> FALSE]
               ELSE [m |-> [m1 EXCEPT
                       !.data = StoreUint32(copyVals(@, vOffset, vals),
                                            kEnd, vOffset \div 4 + vlen * idxOffsetSize),
                       !.groups[g][s] = kOffset \div 4 + (vCap \div 4) * idxOffsetSize,
                       !.tail = ntail,
                       !.valUsed = U32(@ + vCap)],
                     ok |-> TRUE]

\* RePut's update of the slot (g, s) that holds the key (part_002:591-710);
\* unlike Put it has no limitSize branch
RePutUpdate(m, g, s, value) ==
  LET kidx == m.groups[g][s]
      kOffset == offset(kidx) * 4
      kEnd == kOffset + 16
      vHeader == LoadUint32(m.data, kEnd)
      vType == valType(kidx)
      lv == Len(value)
      sub == oldValUsed(m, kidx)
      m1 == [m EXCEPT !.valUsed = U32(@ - sub)]
  IN IF lv >= overLongSize
       THEN LET vCap == Cap4Size(lv) + 4
                vOffset == m.tail + 4
                ntail == vOffset + vCap
            IN IF ntail > kvCap(m)
                 THEN [m |-> tombstoneSlot(m1, g, s), ok |-> FALSE]
                 ELSE [m |-> [m1 EXCEPT
                         !.data = StoreUint32(
                                    copy(StoreUint32(@, m.tail, lv), vOffset, value),
                                    kEnd, m.tail \div 4 + overLongStoreHeaderL),
                         !.groups[g][s] = kOffset \div 4 + overLongStoreHeaderH + mapTypeHeader,
                         !.tail = ntail,
                         !.valUsed = U32(@ + vCap)],
                       ok |-> TRUE]
     ELSE IF lv >= overShortSize
       THEN LET vCap == Cap4Size(lv)
                ntail == m.tail + vCap
                vBig == (lv % 32768) \div 256
                vSmall == lv % 256
            IN IF ntail > kvCap(m)
                 THEN [m |-> tombstoneSlot(m1, g, s), ok |-> FALSE]
                 ELSE [m |-> [m1 EXCEPT
                         !.data = StoreUint32(copy(@, m.tail, value),
                                              kEnd, m.tail \div 4 + vSmall * idxOffsetSize),
                         !.groups[g][s] = kOffset \div 4 + vBig * idxOffsetSize + mapTypeHeader,
                         !.tail = ntail,
                         !.valUsed = U32(@ + vCap)],
                       ok |-> TRUE]
     ELSE IF vType = 0 /\ lv <= capOrBigSize(kidx) * 4 /\ lv < overShortSize
       THEN LET vOffset == vHeader % idxOffsetSize
            IN [m |-> [m EXCEPT
                  !.data = copy(StoreUint32(@, kEnd, vOffset + lv * idxOffsetSize),
                                vOffset * 4, value)],
                ok |-> TRUE]
     ELSE LET vCap == Cap4Size(lv)
              ntail == m.tail + vCap
          IN IF ntail > kvCap(m)
               THEN [m |-> [tombstoneSlot(m1, g, s) EXCEPT !.groups[g][s] = 0],
                     ok |-> FALSE]
               ELSE [m |-> [m1 EXCEPT
                       !.data = StoreUint32(copy(@, m.tail, value),
                                            kEnd, m.tail \div 4 + lv * idxOffsetSize),
                       !.groups[g][s] = kOffset \div 4 + (vCap \div 4) * idxOffsetSize,
                       !.tail = ntail,
                       !.valUsed = U32(@ + vCap)],
                     ok |-> TRUE]

(***************************************************************************)
(* Insertion, rehash and the arena routines they use.                      *)
(***************************************************************************)
\* the arena part of RePut's insertion at slot (g, s): key, header and value
\* appended at tail, the descriptor stored (part_002:718-739, 747-769,
\* 777-798).  fits is FALSE when the record does not fit, and nothing is
\* written then.
insertKV(m, g, s, key, value) ==
  LET lv == Len(value)
      kEnd == m.tail + 16
      vOffset == kEnd + 4
  IN IF lv >= overLongSize
       THEN LET vCap == Cap4Size(lv) + 4
                ntail == m.tail + 20 + vCap
            IN IF ntail > kvCap(m) THEN [m |-> m, fits |-> FALSE]
               ELSE [m |-> [m EXCEPT
                       !.data = StoreUint32(
                                  copy(StoreUint32(copy(@, m.tail, key), vOffset, lv),
                                       vOffset + 4, value),
                                  kEnd, vOffset \div 4 + overLongStoreHeaderL),
                       !.groups[g][s] = m.tail \div 4 + overLongStoreHeaderH + mapTypeHeader,
                       !.items = U32(@ + 1),
                       !.valUsed = U32(@ + vCap),
                       !.tail = ntail],
                     fits |-> TRUE]
     ELSE IF lv >= overShortSize
       THEN LET vCap == Cap4Size(lv)
                ntail == m.tail + 20 + vCap
                vBig == lv \div 256
                vSmall == lv % 256
            IN IF ntail > kvCap(m) THEN [m |-> m, fits |-> FALSE]
               ELSE [m |-> [m EXCEPT
                       !.data = StoreUint32(copy(copy(@, m.tail, key), vOffset, value),
                                            kEnd, vOffset \div 4 + vSmall * idxOffsetSize),
                       !.groups[g][s] = m.tail \div 4 + vBig * idxOffsetSize + mapTypeHeader,
                       !.items = U32(@ + 1),
                       !.valUsed = U32(@ + vCap),
                       !.tail = ntail],
                     fits |-> TRUE]
     ELSE LET vCap == Cap4Size(lv)
              ntail == m.tail + 20 + vCap
              vSmall == lv
          IN IF ntail > kvCap(m) THEN [m |-> m, fits |-> FALSE]
             ELSE [m |-> [m EXCEPT
                     !.data = StoreUint32(copy(copy(@, m.tail, key), vOffset, value),
                                          kEnd, vOffset \div 4 + vSmall * idxOffsetSize),
                     !.groups[g][s] = m.tail \div 4 + (vCap \div 4) * idxOffsetSize,
                     !.items = U32(@ + 1),
                     !.valUsed = U32(@ + vCap),
                     !.tail = ntail],
                   fits |-> TRUE]

\* RePut's insertion without the capacity check
RePutInsertUnchecked(m, g, s, lo, key, value) ==
  [m |-> [m EXCEPT !.tail = @ + 20 + Cap4Size(Len(value)),
                   !.items = U32(@ + 1),
                   !.valUsed = U32(@ + Cap4Size(Len(value))),
                   !.ctrl[g][s] = lo,
                   !.counters[g][s] = 1,
                   !.resident = U32(@ + 1)],
   ok |-> TRUE]

\* RePut's insertion at the empty slot (g, s) that ended the probe
\* (part_002:714-806)
RePutInsert(m, g, s, lo, key, value) ==
  LET r == insertKV(m, g, s, key, value)
  IN IF ~r.fits THEN [m |-> m, ok |-> FALSE]
     ELSE [m |-> [r.m EXCEPT !.ctrl[g][s] = lo,
                             !.counters[g][s] = 1,
                             !.resident = U32(@ + 1)],
           ok |-> TRUE]

\* kvHolder.gcSet: rehash and GCCopy append a live record to the new arena
\* in the layout an insertion gives it
gcSet(m, g, s, key, value) == insertKV(m, g, s, key, value).m

\* kvHolder.getKVUnlock: key and value of a descriptor
getKVUnlock(m, kidx) == [k |-> getKey(m, kidx), v |-> getValue(m, kidx)]

\* the bytes a live descriptor's value occupies, length prefix included
valCap(m, kidx) ==
  LET kEnd == offset(kidx) * 4 + 16
      vHeader == LoadUint32(m.data, kEnd)
  IN IF valType(kidx) = 0
       THEN capOrBigSize(kidx) * 4
       ELSE LET vSize == vHeader \div idxOffsetSize + capOrBigSize(kidx) * 256
            IN IF vSize = overLongSize
                 THEN Cap4Size(LoadUint32(m.data, (vHeader % idxOffsetSize) * 4)) + 4
                 ELSE Cap4Size(vSize)

\* kvHolder.del: the record of a descriptor becomes garbage
del(m, kidx) ==
  [m EXCEPT !.items = U32(@ - 1), !.valUsed = U32(@ - valCap(m, kidx))]

\* a table of n empty groups over a fresh arena (newKVHolder), as rehash,
\* GCCopy and newInnerLFUMap allocate it
newTable(n, lim, c) ==
  [ ctrl |-> [g \in 1..n |-> newEmptyMetadata],
    groups |-> [g \in 1..n |-> [s \in 1..groupSize |-> 0]],
    counters |-> [g \in 1..n |-> [s \in 1..groupSize |-> 0]],
    data |-> newKVData(c), tail |-> kvHolderStart, items |-> 0, valUsed |-> 0,
    resident |-> 0, dead |-> 0, limit |-> lim ]

\* the first empty slot on the probe sequence from group g (part_002:941-955);
\* g is 0 when the new table has no empty slot, where the source's loop
\* never ends
RECURSIVE probeEmpty(_, _, _)
probeEmpty(m, g, n) ==
  LET empties == metaMatchEmpty(m.ctrl[g])
  IN IF empties # {} THEN [g |-> g, s |-> Min(empties)]
     ELSE IF n >= Len(m.ctrl) THEN [g |-> 0, s |-> 0]
     ELSE probeEmpty(m, IF g + 1 > Len(m.groups) THEN 1 ELSE g + 1, n + 1)

\* the copy loop of rehash and GCCopy (part_002:930-957, 1049-1075): the
\* live slots of old from (g, s) on, in table order, re-inserted into new.
\* The result has spin = TRUE when an insertion found no empty slot.
RECURSIVE copyLive(_, _, _, _)
copyLive(old, new, g, s) ==
  IF g > Len(old.ctrl) THEN [m |-> new, spin |-> FALSE]
  ELSE
    LET gNext == IF s = groupSize THEN g + 1 ELSE g
        sNext == IF s = groupSize THEN 1 ELSE s + 1
        c == old.ctrl[g][s]
    IN IF c = empty \/ c = tombstone THEN copyLive(old, new, gNext, sNext)
       ELSE
         LET kv == getKVUnlock(old, old.groups[g][s])
             l == MD5HL(kv.k)
             p == probeEmpty(new, probeStart(splitHashHi(l), Len(new.groups)), 1)
         IN IF p.g = 0 THEN [m |-> new, spin |-> TRUE]
            ELSE copyLive(old,
                   [gcSet(new, p.g, p.s, kv.k, kv.v) EXCEPT
                      !.ctrl[p.g][p.s] = splitHashLo(l),
                      !.counters[p.g][p.s] = old.counters[g][s],
                      !.resident = U32(@ + 1)],
                   gNext, sNext)

\* nextSize that never grows the table
nextSizeKeeps(m) == Len(m.groups)

\* LFUMap.nextSize
nextSize(m) ==
  IF m.dead >= m.resident \div 2
    THEN Len(m.groups)
    ELSE (Len(m.groups) * 12 + 9) \div 10

\* rehash that copies the slots but not their frequency counters
rehashResetsCounters(m) ==
  LET n == nextSize(m)
      r == copyLive(m, newTable(n, n * maxAvgGroupLoad, kvCap(m)), 1, 1)
      zeros == [g \in 1..Len(r.m.ctrl) |-> [s \in 1..groupSize |-> 0]]
  IN [m |-> [r.m EXCEPT !.counters = zeros], spin |-> r.spin]

\* LFUMap.rehash (part_002:920-968)
rehash(m) ==
  LET n == nextSize(m)
  IN copyLive(m, newTable(n, n * maxAvgGroupLoad, kvCap(m)), 1, 1)

(***************************************************************************)
(* The operations, as functions of the shard.  Each returns the shard it   *)
(* leaves and what the call returns; kind "spin" stands for a probe loop   *)
(* that never ends, after which the call never returns.                    *)
(***************************************************************************)
\* Put that inserts at the empty slot that ended its probe
PutInserts(m, l, key, value) ==
  LET p == find(m, l, key)
  IN IF p.kind = "hit" THEN PutUpdate(m, p.g, p.s, value)
     ELSE RePutInsert(m, p.g, p.s, splitHashLo(l), key, value)

\* LFUMap.Put (part_002:221-386)
Put(m, l, key, value) ==
  LET p == find(m, l, key)
  IN IF p.kind = "hit" THEN PutUpdate(m, p.g, p.s, value)
     ELSE [m |-> m, ok |-> FALSE]

\* LFUMap.PutMultiValue (part_002:388-565)
PutMultiValue(m, l, key, vlen, vals) ==
  LET p == find(m, l, key)
  IN IF p.kind = "hit" THEN PutMultiValueUpdate(m, p.g, p.s, vlen, vals)
     ELSE [m |-> m, ok |-> FALSE]

\* kvHolder.limit: RePut refuses once tail has reached it
kvLimit(m) == kvCap(m)

\* RePut that does not look for the key and inserts at the first empty slot
RePutLockedInserts(m, l, key, value) ==
  LET m1 == IF m.resident >= m.limit THEN rehash(m).m ELSE m
      p == probeEmpty(m1, probeStart(splitHashHi(l), Len(m1.groups)), 1)
  IN RePutInsert(m1, p.g, p.s, splitHashLo(l), key, value)

\* the part of RePut that runs under putLock (part_002:576-812)
RePutLocked(m, l, key, value) ==
  LET m1 == IF m.resident >= m.limit THEN rehash(m).m ELSE m
      p == find(m1, l, key)
  IN IF p.kind = "hit" THEN RePutUpdate(m1, p.g, p.s, value)
     ELSE RePutInsert(m1, p.g, p.s, splitHashLo(l), key, value)

\* LFUMap.RePut (part_002:567-813); rh is the rehashing flag it reads
RePut(m, rh, l, key, value) ==
  IF m.tail >= kvLimit(m) \/ rh THEN [m |-> m, ok |-> FALSE]
  ELSE RePutLocked(m, l, key, value)

\* Delete that releases the record and leaves the control byte
DeleteLeavesSlot(m, l, key) ==
  LET p == find(m, l, key)
  IN IF p.kind # "hit" THEN [m |-> m, ok |-> FALSE]
     ELSE [m |-> del(m, m.groups[p.g][p.s]), ok |-> TRUE]

\* LFUMap.Delete (part_002:815-850)
Delete(m, l, key) ==
  LET p == find(m, l, key)
  IN IF p.kind # "hit" THEN [m |-> m, ok |-> FALSE]
     ELSE LET m1 == del(m, m.groups[p.g][p.s])
              m2 == IF metaMatchEmpty(m.ctrl[p.g]) # {}
                      THEN [m1 EXCEPT !.ctrl[p.g][p.s] = empty,
                                      !.resident = U32(@ - 1)]
                      ELSE [m1 EXCEPT !.ctrl[p.g][p.s] = tombstone,
                                      !.dead = U32(@ + 1)]
          IN [m |-> [m2 EXCEPT !.counters[p.g][p.s] = 0], ok |-> TRUE]

\* Clear that leaves resident and dead as they were
ClearKeepsResident(m) ==
  [newTable(Len(m.ctrl), m.limit, kvCap(m)) EXCEPT
     !.resident = m.resident, !.dead = m.dead]

\* LFUMap.Clear (part_002:852-878)
Clear(m) ==
  [newTable(Len(m.ctrl), m.limit, kvCap(m)) EXCEPT
     !.groups = [g \in 1..Len(m.groups) |-> [s \in 1..groupSize |-> 0]],
     !.counters = [g \in 1..Len(m.counters) |-> [s \in 1..groupSize |-> 0]]]

\* LFUMap.Count, LFUMap.Capacity, LFUMap.Items, LFUMap.ItemsUsedMem
Count(m) == U32(m.resident - m.dead)
Capacity(m) == U32(m.limit - m.resident)
Items(m) == m.items
ItemsUsedMem(m) == U32(m.valUsed + m.items * 20 + 4)

(***************************************************************************)
(* Maintenance: GCCopy and Eliminate.  The rates are percentages.          *)
(***************************************************************************)
garbageRate == 10
eliminateMissRate == 50
eliminateStart == 60
eliminateEnd == 30
skipReason1 == 1
skipReason2 == 2
skipReason3 == 3

\* kvHolder.garbageUsage() < garbageRate: the garbage is the part of the
\* used arena that no live record accounts for
garbageBelowRate(m) ==
  U32(m.tail - ItemsUsedMem(m)) * 100 < garbageRate * m.tail

\* GCCopy that installs the new table without copying the live records
GCCopyLockedEmpty(m, n) ==
  [m |-> [newTable(n, m.limit, kvCap(m)) EXCEPT
            !.resident = U32(m.resident - m.dead)],
   spin |-> FALSE]

\* the part of GCCopy that runs under putLock (part_002:1044-1085); n is the
\* group count GCCopy read before it took the lock
GCCopyLocked(m, n) ==
  LET r == copyLive(m, newTable(n, m.limit, kvCap(m)), 1, 1)
  IN [m |-> [r.m EXCEPT !.resident = U32(m.resident - m.dead), !.dead = 0],
      spin |-> r.spin]

\* BuildMinTopCounter: the n live slots with the smallest counters (ties in
\* table order) and the largest counter among them
liveSlots(m) ==
  { gs \in (1..Len(m.ctrl)) \X (1..groupSize) :
      m.ctrl[gs[1]][gs[2]] # empty /\ m.ctrl[gs[1]][gs[2]] # tombstone }
counterRank(m, gs) ==
  m.counters[gs[1]][gs[2]] * (Len(m.ctrl) * groupSize + 1)
    + (gs[1] - 1) * groupSize + gs[2]
BuildMinTopCounter(m, n) ==
  LET item == { gs \in liveSlots(m) :
                  Cardinality({ o \in liveSlots(m) :
                                  counterRank(m, o) < counterRank(m, gs) }) < n }
  IN [item |-> item,
      x |-> IF item = {} THEN 0
            ELSE Max({ m.counters[gs[1]][gs[2]] : gs \in item })]

\* the number of slots Eliminate wants to drop (part_002:988)
eliminateCount(m) ==
  (m.items * (eliminateStart - eliminateEnd) + eliminateStart - 1) \div eliminateStart

\* Eliminate under putLock that drops the n live slots with the largest
\* counters
EliminateLockedHighest(m, n) ==
  LET item == { gs \in liveSlots(m) :
                  Cardinality({ o \in liveSlots(m) :
                                  counterRank(m, o) > counterRank(m, gs) }) < n }
      x == IF item = {} THEN 0
           ELSE Max({ m.counters[gs[1]][gs[2]] : gs \in item })
      hit(g, s) == << g, s >> \in item
  IN [m |-> [m EXCEPT
        !.ctrl = [g \in 1..Len(m.ctrl) |-> [s \in 1..groupSize |->
                    IF hit(g, s) THEN tombstone ELSE m.ctrl[g][s]]],
        !.groups = [g \in 1..Len(m.ctrl) |-> [s \in 1..groupSize |->
                    IF hit(g, s) THEN 0 ELSE m.groups[g][s]]],
        !.counters = [g \in 1..Len(m.ctrl) |-> [s \in 1..groupSize |->
                    IF m.counters[g][s] > x THEN m.counters[g][s] - x ELSE 0]],
        !.items = U32(@ - Cardinality(item)),
        !.dead = U32(@ + Cardinality(item))],
      delCount |-> Cardinality(item)]

\* Eliminate under putLock whose subtraction wraps instead of saturating
EliminateLockedWraps(m, n) ==
  LET top == BuildMinTopCounter(m, n)
      hit(g, s) == << g, s >> \in top.item
  IN [m |-> [m EXCEPT
        !.ctrl = [g \in 1..Len(m.ctrl) |-> [s \in 1..groupSize |->
                    IF hit(g, s) THEN tombstone ELSE m.ctrl[g][s]]],
        !.groups = [g \in 1..Len(m.ctrl) |-> [s \in 1..groupSize |->
                    IF hit(g, s) THEN 0 ELSE m.groups[g][s]]],
        !.counters = [g \in 1..Len(m.ctrl) |-> [s \in 1..groupSize |->
                    (m.counters[g][s] + maxCount + 1 - top.x) % (maxCount + 1)]],
        !.items = U32(@ - Cardinality(top.item)),
        !.dead = U32(@ + Cardinality(top.item))],
      delCount |-> Cardinality(top.item)]

\* the part of Eliminate that runs under putLock (part_002:994-1020)
EliminateLocked(m, n) ==
  LET top == BuildMinTopCounter(m, n)
      hit(g, s) == << g, s >> \in top.item
  IN [m |-> [m EXCEPT
        !.ctrl = [g \in 1..Len(m.ctrl) |-> [s \in 1..groupSize |->
                    IF hit(g, s) THEN tombstone ELSE m.ctrl[g][s]]],
        !.groups = [g \in 1..Len(m.ctrl) |-> [s \in 1..groupSize |->
                    IF hit(g, s) THEN 0 ELSE m.groups[g][s]]],
        !.counters = [g \in 1..Len(m.ctrl) |-> [s \in 1..groupSize |->
                    IF m.counters[g][s] > top.x THEN m.counters[g][s] - top.x ELSE 0]],
        !.items = U32(@ - Cardinality(top.item)),
        !.valUsed = U32(@ - (LET RECURSIVE sum(_)
                                 sum(S) == IF S = {} THEN 0
                                           ELSE LET e == CHOOSE e \in S : TRUE
                                                IN valCap(m, m.groups[e[1]][e[2]])
                                                   + sum(S \ {e})
                             IN sum(top.item))),
        !.dead = U32(@ + Cardinality(top.item))],
      delCount |-> Cardinality(top.item)]

\* Eliminate that does not look at the miss rate
EliminateIgnoresMissRate(m, qc, mc) ==
  IF ItemsUsedMem(m) * 100 < eliminateStart * kvCap(m)
    THEN [m |-> m, delCount |-> 0, skipReason |-> skipReason2]
  ELSE IF eliminateCount(m) = 0
    THEN [m |-> m, delCount |-> 0, skipReason |-> skipReason3]
  ELSE LET r == EliminateLocked(m, eliminateCount(m))
       IN [m |-> r.m, delCount |-> r.delCount, skipReason |-> 0]

\* LFUMap.Eliminate (part_002:975-1022); qc and mc are the query and miss
\* counts it reads
Eliminate(m, qc, mc) ==
  IF qc > 0 /\ mc * 100 < eliminateMissRate * qc
    THEN [m |-> m, delCount |-> 0, skipReason |-> skipReason1]
  ELSE IF ItemsUsedMem(m) * 100 < eliminateStart * kvCap(m)
    THEN [m |-> m, delCount |-> 0, skipReason |-> skipReason2]
  ELSE IF eliminateCount(m) = 0
    THEN [m |-> m, delCount |-> 0, skipReason |-> skipReason3]
  ELSE LET r == EliminateLocked(m, eliminateCount(m))
       IN [m |-> r.m, delCount |-> r.delCount, skipReason |-> 0]

(***************************************************************************)
(* The state machine with every call atomic: the writers and the           *)
(* maintenance calls, one at a time.                                       *)
(***************************************************************************)
\* capacity hint given to newInnerLFUMap
sz == 1
numGroups(n) ==
  IF (n + maxAvgGroupLoad - 1) \div maxAvgGroupLoad = 0 THEN 1
  ELSE (n + maxAvgGroupLoad - 1) \div maxAvgGroupLoad

\* no call is in flight
idleReader == [pc |-> "idle", g |-> 0, s |-> 0, c |-> 0, wrote |-> 0]
idleRePut == [pc |-> "idle", key |-> 0, val |-> 0]
idleGCCopy == [pc |-> "idle", n |-> 0, oldUsed |-> 0, deadCount |-> 0,
               resident |-> 0]
idleGet == [pc |-> "idle", key |-> 0, g |-> 0, s |-> 0, vHeader |-> 0,
            value |-> << >>]
Threads == 1..NumThreads
idleCall == [op |-> "idle", k |-> 0, pc |-> 0, wait |-> FALSE]
\* an RWMutex nobody holds: w is the writer that holds it or has announced
\* itself, r the readers that hold it
freeRW == [w |-> 0, r |-> {}]

\* newInnerLFUMap (part_002:46-64) with arena capacity c
InitShard(c) ==
  LET m == newTable(numGroups(sz), numGroups(sz) * maxAvgGroupLoad, c)
  IN /\ ctrl = m.ctrl
     /\ groups = m.groups
     /\ counters = m.counters
     /\ data = m.data
     /\ tail = m.tail
     /\ items = m.items
     /\ valUsed = m.valUsed
     /\ resident = m.resident
     /\ dead = m.dead
     /\ limit = m.limit
     /\ rehashing = FALSE
     /\ queryCnt = 0
     /\ missCnt = 0
     /\ readers = [t \in Readers |-> idleReader]
     /\ rePut = idleRePut
     /\ gcCopy = idleGCCopy
     /\ putLock = 0
     /\ rehashLock = freeRW
     /\ mutex = freeRW
     /\ calls = [t \in Threads |-> idleCall]
     /\ get = idleGet

Init == \E c \in {memMax, memWide} : InitShard(c)

PutCall(k, v) ==
  LET r == Put(Shard, h(k), KeyBytes(k), Values[v])
  IN /\ find(Shard, h(k), KeyBytes(k)).kind # "spin"
     /\ Install(r.m)
     /\ UNCHANGED << rehashing, queryCnt, missCnt, threadVars >>

PutMultiValueCall(k, v) ==
  \E vals \in Splits(Values[v]) :
    LET r == PutMultiValue(Shard, h(k), KeyBytes(k), Len(Values[v]), vals)
    IN /\ find(Shard, h(k), KeyBytes(k)).kind # "spin"
       /\ Install(r.m)
       /\ UNCHANGED << rehashing, queryCnt, missCnt, threadVars >>

\* whether RePut's rehash or probe loop never ends
RePutSpins(m, l, key) ==
  IF m.resident >= m.limit
    THEN rehash(m).spin \/ find(rehash(m).m, l, key).kind = "spin"
    ELSE find(m, l, key).kind = "spin"

\* RePut (part_002:567-813); its rehash takes rehashLock.Lock (part_002:960),
\* which waits for the readers holding RLock
RePutCall(k, v) ==
  LET r == RePut(Shard, rehashing, h(k), KeyBytes(k), Values[v])
  IN /\ (tail >= kvLimit(Shard) \/ rehashing \/ ~RePutSpins(Shard, h(k), KeyBytes(k)))
     /\ (tail < kvLimit(Shard) /\ ~rehashing /\ resident >= limit)
          => \A t \in Readers : readers[t].pc = "idle"
     /\ Install(r.m)
     /\ UNCHANGED << rehashing, queryCnt, missCnt, threadVars >>

DeleteCall(k) ==
  LET r == Delete(Shard, h(k), KeyBytes(k))
  IN /\ find(Shard, h(k), KeyBytes(k)).kind # "spin"
     /\ Install(r.m)
     /\ UNCHANGED << rehashing, queryCnt, missCnt, threadVars >>

ClearCall ==
  /\ Install(Clear(Shard))
  /\ UNCHANGED << rehashing, queryCnt, missCnt, threadVars >>

EliminateCall ==
  LET r == Eliminate(Shard, queryCnt, missCnt)
  IN /\ Install(r.m)
     /\ UNCHANGED << rehashing, queryCnt, missCnt, threadVars >>

\* LFUMap.GCCopy (part_002:1024-1089), run with no other call in flight
GCCopyCall ==
  IF garbageBelowRate(Shard)
    THEN UNCHANGED vars
  ELSE IF rehashing
    THEN UNCHANGED vars
  ELSE LET r == GCCopyLocked(Shard, Len(groups))
       IN /\ ~r.spin
          /\ Install(r.m)
          /\ rehashing' = FALSE
          /\ UNCHANGED << queryCnt, missCnt, threadVars >>

Next ==
  \/ \E k \in CallKeys : \E v \in CallVals(k) : PutCall(k, v)
  \/ \E k \in CallKeys : \E v \in CallVals(k) : PutMultiValueCall(k, v)
  \/ \E k \in CallKeys : \E v \in CallVals(k) : RePutCall(k, v)
  \/ \E k \in CallKeys : DeleteCall(k)
  \/ ClearCall
  \/ EliminateCall
  \/ GCCopyCall

Spec == Init /\ [][Next]_vars

\* RePut and Delete on a shard whose arena holds four records, so that a
\* table of two groups fills up
InitGrow == InitShard(memGrow)
NextGrow ==
  \/ \E k \in CallKeys : \E v \in CallVals(k) : RePutCall(k, v)
  \/ \E k \in CallKeys : DeleteCall(k)
SpecGrow == InitGrow /\ [][NextGrow]_vars

(***************************************************************************)
(* The state machine with calls overlapping.  A call is cut where another  *)
(* thread can run: a writer's statements before putLock.Lock() are one     *)
(* step and its locked part another; a reader holds rehashLock.RLock from  *)
(* its probe to its return, and its test and its increment of the counter  *)
(* are two steps.  A step that replaces the table takes rehashLock.Lock    *)
(* and so waits until no reader is in flight.                              *)
(***************************************************************************)
\* width of a slot counter (uint8 in the source)
counterSize == maxCount + 1
NoReader == \A t \in Readers : readers[t].pc = "idle"

\* Has (part_002:117-149) up to the match: count the query, probe
HasProbe(t, k) ==
  LET p == find(Shard, h(k), KeyBytes(k))
  IN /\ readers[t].pc = "idle"
     /\ queryCnt < MaxQuery
     /\ p.kind # "spin"
     /\ queryCnt' = queryCnt + 1
     /\ IF p.kind = "hit"
          THEN /\ readers' = [readers EXCEPT ![t] =
                             [idleReader EXCEPT !.pc = "found", !.g = p.g, !.s = p.s]]
               /\ missCnt' = missCnt
          ELSE /\ readers' = readers
               /\ missCnt' = missCnt + 1
     /\ UNCHANGED << shardVars, rehashing, rePut, gcCopy,
                     lockVars, get >>

\* add (part_002:153): the test of the counter
HasTest(t) ==
  LET r == readers[t]
      c == counters[r.g][r.s]
  IN /\ r.pc = "found"
     /\ readers' = [readers EXCEPT ![t] =
                      IF c < maxCount THEN [r EXCEPT !.pc = "add", !.c = c]
                      ELSE [r EXCEPT !.pc = "done", !.c = c, !.wrote = c]]
     /\ UNCHANGED << shardVars, rehashing, queryCnt, missCnt, rePut, gcCopy,
                     lockVars, get >>

\* add (part_002:154): the increment.  The readers share rehashLock.RLock
\* and nothing orders their accesses to the byte, so the increment is of the
\* byte as it is now or of the value the test read.
HasAdd(t) ==
  LET r == readers[t]
  IN /\ r.pc = "add"
     /\ \E old \in {counters[r.g][r.s], r.c} :
          LET c == (old + 1) % counterSize
          IN /\ counters' = [counters EXCEPT ![r.g][r.s] = c]
             /\ readers' = [readers EXCEPT ![t] =
                              [r EXCEPT !.pc = "done", !.wrote = c]]
     /\ UNCHANGED << ctrl, groups, data, tail, items, valUsed, resident, dead,
                     limit, rehashing, queryCnt, missCnt, rePut, gcCopy,
                     lockVars, get >>

\* Has returns (part_002:136-138)
HasReturn(t) ==
  /\ readers[t].pc = "done"
  /\ readers' = [readers EXCEPT ![t] = idleReader]
  /\ UNCHANGED << shardVars, rehashing, queryCnt, missCnt, rePut, gcCopy,
                     lockVars, get >>

\* RePut before putLock.Lock() (part_002:568-574)
RePutEnter(k, v) ==
  /\ rePut.pc = "idle"
  /\ IF tail >= kvLimit(Shard) \/ rehashing
       THEN rePut' = rePut
       ELSE rePut' = [pc |-> "locking", key |-> k, val |-> v]
  /\ UNCHANGED << shardVars, rehashing, queryCnt, missCnt, readers, gcCopy,
                     lockVars, get >>

\* RePut under putLock (part_002:576-812)
RePutRun ==
  LET l == h(rePut.key)
      key == KeyBytes(rePut.key)
      r == RePutLocked(Shard, l, key, Values[rePut.val])
  IN /\ rePut.pc = "locking"
     /\ resident >= limit => NoReader
     /\ ~RePutSpins(Shard, l, key)
     /\ Install(r.m)
     /\ rehashing' = IF resident >= limit THEN FALSE ELSE rehashing
     /\ rePut' = idleRePut
     /\ UNCHANGED << queryCnt, missCnt, readers, gcCopy,
                     lockVars, get >>

\* GCCopy before putLock.Lock() (part_002:1025-1042)
GCCopyEnter ==
  /\ gcCopy.pc = "idle"
  /\ IF garbageBelowRate(Shard) \/ rehashing
       THEN UNCHANGED << rehashing, gcCopy >>
       ELSE /\ rehashing' = TRUE
            /\ gcCopy' = [pc |-> "locking", n |-> Len(groups), oldUsed |-> tail,
                          deadCount |-> dead, resident |-> resident]
  /\ UNCHANGED << shardVars, queryCnt, missCnt, readers, rePut,
                     lockVars, get >>

\* GCCopy under putLock (part_002:1044-1085)
GCCopyRun ==
  LET r == GCCopyLocked(Shard, gcCopy.n)
  IN /\ gcCopy.pc = "locking"
     /\ NoReader
     /\ ~r.spin
     /\ Install(r.m)
     /\ gcCopy' = [gcCopy EXCEPT !.pc = "unlocked"]
     /\ UNCHANGED << rehashing, queryCnt, missCnt, readers, rePut,
                     lockVars, get >>

\* GCCopy after putLock.Unlock() (part_002:1086-1088)
GCCopyReturn ==
  /\ gcCopy.pc = "unlocked"
  /\ rehashing' = FALSE
  /\ gcCopy' = idleGCCopy
  /\ UNCHANGED << shardVars, queryCnt, missCnt, readers, rePut,
                     lockVars, get >>

\* a writer and GCCopy overlapping, no reader in flight
InitConc == InitShard(memWide)

NextConc ==
  \/ \E k \in CallKeys : \E v \in CallVals(k) : RePutEnter(k, v)
  \/ RePutRun
  \/ \E k \in CallKeys : DeleteCall(k)
  \/ GCCopyEnter
  \/ GCCopyRun
  \/ GCCopyReturn

SpecConc == InitConc /\ [][NextConc]_vars

\* readers overlapping each other, the writers atomic
NextRead ==
  \/ \E t \in Readers : \E k \in CallKeys : HasProbe(t, k)
  \/ \E t \in Readers : HasTest(t)
  \/ \E t \in Readers : HasAdd(t)
  \/ \E t \in Readers : HasReturn(t)
  \/ \E k \in CallKeys : \E v \in CallVals(k) : RePutCall(k, v)

InitRead == InitShard(memMax)
SpecRead == InitRead /\ [][NextRead]_vars

\* Has (part_002:117-149) run with no other call in flight: count the query,
\* probe, and count the hit on the slot's counter or the miss
HasCall(k) ==
  LET p == find(Shard, h(k), KeyBytes(k))
  IN /\ queryCnt < MaxQuery
     /\ p.kind # "spin"
     /\ queryCnt' = queryCnt + 1
     /\ IF p.kind = "hit"
          THEN /\ counters' = [counters EXCEPT ![p.g][p.s] = add(@)]
               /\ missCnt' = missCnt
          ELSE /\ counters' = counters
               /\ missCnt' = missCnt + 1
     /\ UNCHANGED << ctrl, groups, data, tail, items, valUsed, resident, dead,
                     limit, rehashing, threadVars >>

\* one call at a time: lookups that raise the counters, RePut and Eliminate
InitAge == InitShard(memMax)
NextAge ==
  \/ \E k \in CallKeys : HasCall(k)
  \/ \E k \in CallKeys : \E v \in CallVals(k) : RePutCall(k, v)
  \/ EliminateCall
SpecAge == InitAge /\ [][NextAge]_vars

(***************************************************************************)
(* The locks.  Each call is the sequence of its lock statements and of its *)
(* accesses to the table between them: "use" reads groups, ctrl, counters  *)
(* or the arena, "write" changes a slot in place ("descriptor" when it     *)
(* stores groups[g][s] or a value header, "table" when it stores control   *)
(* bytes and counters only), "swap" replaces the arrays and the arena and  *)
(* releases the old arena; "again" ends the body of a loop, which is run   *)
(* once more or left.  The argument k is the path the call takes through   *)
(* its branches.  The table's contents play no part here.                  *)
(***************************************************************************)
Ins(kind, lock) == [kind |-> kind, lock |-> lock, back |-> 0]
\* the end of a loop body of n statements
Again(n) == [kind |-> "again", lock |-> "none", back |-> n]

\* Has (part_002:117-149): k = 1 when control bytes match and keys are
\* compared; getKey at 127, bytes.Equal ("key") at 129
HasLocks(k) ==
  << Ins("RLock", "rehashLock"), Ins("use", "table") >>
    \o (IF k = 1 THEN << Ins("RLock", "mutex"), Ins("use", "table"),
                         Ins("RUnlock", "mutex"), Ins("use", "key"),
                         Again(4) >>
                 ELSE << >>)
    \o << Ins("use", "table"), Ins("RUnlock", "rehashLock") >>

\* Get (part_002:158-219): k = 1 when control bytes match and keys are
\* compared; bytes.Equal and the copy of the value ("key") at 173-198
GetLocks(k) ==
  << Ins("RLock", "rehashLock"), Ins("use", "table") >>
    \o (IF k = 1 THEN << Ins("RLock", "mutex"), Ins("use", "key"),
                         Ins("RUnlock", "mutex"), Again(3) >>
                 ELSE << >>)
    \o << Ins("use", "table"), Ins("RUnlock", "rehashLock") >>

\* Put (part_002:221-386) and PutMultiValue (388-565): k = 1 when the value
\* is stored (286-289, 322-325, 332-335, 363-366), 0 when the appended
\* value does not fit and the slot is given up (352-358)
PutLocks(k) ==
  << Ins("Lock", "putLock"), Ins("use", "table") >>
    \o (IF k = 1 THEN << Ins("Lock", "mutex"), Ins("write", "descriptor"),
                         Ins("Unlock", "mutex") >>
                 ELSE << Ins("write", "descriptor") >>)
    \o << Ins("Unlock", "putLock") >>

\* RePut (part_002:567-813): k = 1 or 3 when it rehashes, 2 or 3 when it
\* stores the value; otherwise the appended value does not fit and the slot
\* is given up (690-696)
RePutLocks(k) ==
  << Ins("use", "table"), Ins("Lock", "putLock") >>
    \o (IF k % 2 = 1 THEN << Ins("use", "table"), Ins("Lock", "rehashLock"),
                             Ins("swap", "table"), Ins("Unlock", "rehashLock") >>
                     ELSE << >>)
    \o << Ins("use", "table") >>
    \o (IF k \div 2 = 1 THEN << Ins("Lock", "mutex"), Ins("write", "descriptor"),
                                Ins("Unlock", "mutex") >>
                        ELSE << Ins("write", "descriptor") >>)
    \o << Ins("Unlock", "putLock") >>

\* Delete (part_002:815-850)
DeleteLocks(k) ==
  << Ins("Lock", "putLock"), Ins("use", "table") >>
    \o (IF k = 1 THEN << Ins("write", "table") >> ELSE << >>)
    \o << Ins("Unlock", "putLock") >>

\* Clear (part_002:852-878) and Close (880-893)
ClearLocks(k) ==
  << Ins("Lock", "putLock"), Ins("Lock", "rehashLock"), Ins("swap", "table"),
     Ins("Unlock", "rehashLock"), Ins("Unlock", "putLock") >>

\* Eliminate that takes rehashLock for its whole loop, and takes it first
EliminateLocksRehashFirst(k) ==
  << Ins("use", "table"), Ins("Lock", "rehashLock"), Ins("Lock", "putLock"),
     Ins("use", "table") >>
    \o (IF k = 1 THEN << Ins("write", "table"), Again(1) >> ELSE << >>)
    \o << Ins("write", "table"), Ins("Unlock", "putLock"),
          Ins("Unlock", "rehashLock") >>

\* Eliminate past its guards (part_002:994-1020): k = 1 when slots are
\* dropped
EliminateLocks(k) ==
  << Ins("use", "table"), Ins("Lock", "putLock"), Ins("use", "table") >>
    \o (IF k = 1 THEN << Ins("Lock", "rehashLock"), Ins("write", "descriptor"),
                         Ins("Unlock", "rehashLock"), Again(3) >>
                 ELSE << >>)
    \o << Ins("write", "table"), Ins("Unlock", "putLock") >>

\* GCCopy that installs the new table without rehashLock
GCCopyLocksNoRehashLock(k) ==
  << Ins("use", "table"), Ins("Lock", "putLock"), Ins("use", "table"),
     Ins("swap", "table"), Ins("Unlock", "putLock"), Ins("use", "table") >>

\* GCCopy past its guards (part_002:1036-1088)
GCCopyLocks(k) ==
  << Ins("use", "table"), Ins("Lock", "putLock"), Ins("use", "table"),
     Ins("Lock", "rehashLock"), Ins("swap", "table"),
     Ins("Unlock", "rehashLock"), Ins("Unlock", "putLock"),
     Ins("use", "table") >>

Ops == {"Has", "Get", "Put", "RePut", "Delete", "Clear", "Eliminate", "GCCopy"}
\* the paths of a call
Paths(op) ==
  CASE op \in {"Has", "Get", "Eliminate", "Put", "Delete"} -> 0..1
    [] op = "RePut" -> 0..3
    [] OTHER -> {0}
Program(op, k) ==
  CASE op = "Has" -> HasLocks(k)
    [] op = "Get" -> GetLocks(k)
    [] op = "Put" -> PutLocks(k)
    [] op = "RePut" -> RePutLocks(k)
    [] op = "Delete" -> DeleteLocks(k)
    [] op = "Clear" -> ClearLocks(k)
    [] op = "Eliminate" -> EliminateLocks(k)
    [] op = "GCCopy" -> GCCopyLocks(k)

\* the statement thread t is at, if it runs a call
InFlight(t) == calls[t].op # "idle"
At(t) == Program(calls[t].op, calls[t].k)[calls[t].pc]
AtKind(t, kind) == InFlight(t) /\ At(t).kind = kind
RW(lock) == IF lock = "rehashLock" THEN rehashLock ELSE mutex
SetRW(lock, v) ==
  IF lock = "rehashLock" THEN rehashLock' = v /\ mutex' = mutex
                         ELSE mutex' = v /\ rehashLock' = rehashLock
\* thread t goes on to its next statement, or returns after its last
Advance(t) ==
  calls' = [calls EXCEPT ![t] =
              IF calls[t].pc = Len(Program(calls[t].op, calls[t].k))
                THEN idleCall
                ELSE [@ EXCEPT !.pc = @ + 1, !.wait = FALSE]]
restUnchanged == UNCHANGED << shardVars, rehashing, queryCnt, missCnt,
                              readers, rePut, gcCopy, get >>

CallStart(t, op, k) ==
  /\ ~InFlight(t)
  /\ calls' = [calls EXCEPT ![t] = [op |-> op, k |-> k, pc |-> 1, wait |-> FALSE]]
  /\ UNCHANGED << putLock, rehashLock, mutex >>
  /\ restUnchanged

\* sync.Mutex
MutexLock(t) ==
  /\ AtKind(t, "Lock") /\ At(t).lock = "putLock"
  /\ putLock = 0
  /\ putLock' = t
  /\ Advance(t)
  /\ UNCHANGED << rehashLock, mutex >>
  /\ restUnchanged
MutexUnlock(t) ==
  /\ AtKind(t, "Unlock") /\ At(t).lock = "putLock"
  /\ putLock' = 0
  /\ Advance(t)
  /\ UNCHANGED << rehashLock, mutex >>
  /\ restUnchanged

\* sync.RWMutex.Lock: the writer first excludes the other writers and the
\* readers that come after it, then waits for the readers that hold the lock
RWLockAnnounce(t) ==
  /\ AtKind(t, "Lock") /\ At(t).lock # "putLock"
  /\ ~calls[t].wait
  /\ RW(At(t).lock).w = 0
  /\ SetRW(At(t).lock, [RW(At(t).lock) EXCEPT !.w = t])
  /\ calls' = [calls EXCEPT ![t].wait = TRUE]
  /\ UNCHANGED putLock
  /\ restUnchanged
RWLockAcquire(t) ==
  /\ AtKind(t, "Lock") /\ At(t).lock # "putLock"
  /\ calls[t].wait
  /\ RW(At(t).lock).r = {}
  /\ Advance(t)
  /\ UNCHANGED << putLock, rehashLock, mutex >>
  /\ restUnchanged
RWUnlock(t) ==
  /\ AtKind(t, "Unlock") /\ At(t).lock # "putLock"
  /\ SetRW(At(t).lock, [RW(At(t).lock) EXCEPT !.w = 0])
  /\ Advance(t)
  /\ UNCHANGED putLock
  /\ restUnchanged
\* sync.RWMutex.RLock waits while a writer holds the lock or has announced
\* itself
RWRLock(t) ==
  /\ AtKind(t, "RLock")
  /\ RW(At(t).lock).w = 0
  /\ SetRW(At(t).lock, [RW(At(t).lock) EXCEPT !.r = @ \cup {t}])
  /\ Advance(t)
  /\ UNCHANGED putLock
  /\ restUnchanged
RWRUnlock(t) ==
  /\ AtKind(t, "RUnlock")
  /\ SetRW(At(t).lock, [RW(At(t).lock) EXCEPT !.r = @ \ {t}])
  /\ Advance(t)
  /\ UNCHANGED putLock
  /\ restUnchanged
\* the end of a loop body: once more, or on
Loop(t) ==
  /\ AtKind(t, "again")
  /\ calls' = [calls EXCEPT ![t].pc = @ - At(t).back]
  /\ UNCHANGED << putLock, rehashLock, mutex >>
  /\ restUnchanged
LoopExit(t) ==
  /\ AtKind(t, "again")
  /\ Advance(t)
  /\ UNCHANGED << putLock, rehashLock, mutex >>
  /\ restUnchanged
\* a statement that reads, writes or replaces the table
Access(t) ==
  /\ InFlight(t)
  /\ At(t).kind \in {"use", "write", "swap"}
  /\ Advance(t)
  /\ UNCHANGED << putLock, rehashLock, mutex >>
  /\ restUnchanged

InitLock == InitShard(memMax)
NextLock ==
  \/ \E t \in Threads : \E op \in Ops : \E k \in Paths(op) : CallStart(t, op, k)
  \/ \E t \in Threads : MutexLock(t)
  \/ \E t \in Threads : MutexUnlock(t)
  \/ \E t \in Threads : RWLockAnnounce(t)
  \/ \E t \in Threads : RWLockAcquire(t)
  \/ \E t \in Threads : RWUnlock(t)
  \/ \E t \in Threads : RWRLock(t)
  \/ \E t \in Threads : RWRUnlock(t)
  \/ \E t \in Threads : Loop(t)
  \/ \E t \in Threads : LoopExit(t)
  \/ \E t \in Threads : Access(t)
SpecLock == InitLock /\ [][NextLock]_vars

(***************************************************************************)
(* Get overlapping Put.  Get compares the key and reads the value inside   *)
(* one kvHolder.mutex.RLock window, in which it loads the slot's           *)
(* descriptor several times.  A Put that stores a value changes descriptor *)
(* and header inside kvHolder.mutex.Lock and so runs before or after that  *)
(* window; a Put that fails takes putLock only and runs at any point.      *)
(***************************************************************************)
\* Get up to the load of the value header (part_002:158-180): the key is
\* found in slot (g, s)
GetMatch(k) ==
  LET p == findGet(Shard, h(k), KeyBytes(k))
  IN /\ get.pc = "idle"
     /\ p.kind = "hit"
     /\ get' = [pc |-> "matched", key |-> k, g |-> p.g, s |-> p.s,
                vHeader |-> LoadUint32(data, offset(groups[p.g][p.s]) * 4 + 16),
                value |-> << >>]
     /\ UNCHANGED << shardVars, rehashing, queryCnt, missCnt, readers, rePut,
                     gcCopy, lockVars >>

\* Get from the load of the value type to the copy of the value
\* (part_002:181-198)
GetRead ==
  /\ get.pc = "matched"
  /\ get' = [get EXCEPT !.pc = "done",
                        !.value = getValueAs(Shard, groups[get.g][get.s], get.vHeader)]
  /\ UNCHANGED << shardVars, rehashing, queryCnt, missCnt, readers, rePut,
                  gcCopy, lockVars >>

\* Get returns (part_002:200-203)
GetReturn ==
  /\ get.pc = "done"
  /\ get' = idleGet
  /\ UNCHANGED << shardVars, rehashing, queryCnt, missCnt, readers, rePut,
                  gcCopy, lockVars >>

\* RePut while no Get is in flight
RePutAlone(k, v) ==
  /\ get.pc = "idle"
  /\ RePutCall(k, v)

\* Put; one that stores a value waits for Get to leave its RLock window
PutBeside(k, v) ==
  /\ (get.pc = "matched" => ~Put(Shard, h(k), KeyBytes(k), Values[v]).ok)
  /\ PutCall(k, v)

InitTorn == InitShard(memMax)
NextTorn ==
  \/ \E k \in CallKeys : \E v \in CallVals(k) : RePutAlone(k, v)
  \/ \E k \in CallKeys : \E v \in CallVals(k) : PutBeside(k, v)
  \/ \E k \in CallKeys : GetMatch(k)
  \/ GetRead
  \/ GetReturn
SpecTorn == InitTorn /\ [][NextTorn]_vars

(***************************************************************************)
(* The query statistics.  Has and Get count the query before they take     *)
(* rehashLock.RLock and count a miss after they have released it, so a     *)
(* lookup is three steps: the count of the query, the probe under the      *)
(* lock, and the count of the miss.  The writers run between them.         *)
(***************************************************************************)
Lookups == {"Has", "Get"}
\* whether the probe of lookup op for key k ends with a match, with an
\* empty byte, or never
LookupEnds(op, k) ==
  IF op = "Has" THEN find(Shard, h(k), KeyBytes(k))
                ELSE findGet(Shard, h(k), KeyBytes(k))

\* a lookup that does not count the query
LookupCountSkipped(t, op, k) ==
  /\ readers[t].pc = "idle"
  /\ queryCnt < MaxQuery
  /\ readers' = [readers EXCEPT ![t] = [pc |-> "counted", op |-> op, key |-> k]]
  /\ UNCHANGED << shardVars, rehashing, queryCnt, missCnt, rePut, gcCopy,
                  lockVars, get >>

\* m.queryCnt.Add(1) (part_002:118 in Has, 159 in Get)
LookupCount(t, op, k) ==
  /\ readers[t].pc = "idle"
  /\ queryCnt < MaxQuery
  /\ queryCnt' = queryCnt + 1
  /\ readers' = [readers EXCEPT ![t] = [pc |-> "counted", op |-> op, key |-> k]]
  /\ UNCHANGED << shardVars, rehashing, missCnt, rePut, gcCopy, lockVars, get >>

\* from rehashLock.RLock to rehashLock.RUnlock (part_002:119-140 in Has,
\* 160-210 in Get): a match bumps the slot's counter and the call returns
\* true
LookupProbe(t) ==
  LET p == LookupEnds(readers[t].op, readers[t].key)
  IN /\ readers[t].pc = "counted"
     /\ p.kind # "spin"
     /\ IF p.kind = "hit"
          THEN /\ counters' = [counters EXCEPT ![p.g][p.s] = add(@)]
               /\ readers' = [readers EXCEPT ![t] = idleReader]
          ELSE /\ counters' = counters
               /\ readers' = [readers EXCEPT ![t].pc = "missed"]
     /\ UNCHANGED << ctrl, groups, data, tail, items, valUsed, resident, dead,
                     limit, rehashing, queryCnt, missCnt, rePut, gcCopy,
                     lockVars, get >>

\* m.missCnt.Add(1) and the return of false (part_002:141-142 in Has,
\* 211-212 in Get)
LookupMiss(t) ==
  /\ readers[t].pc = "missed"
  /\ missCnt' = missCnt + 1
  /\ readers' = [readers EXCEPT ![t] = idleReader]
  /\ UNCHANGED << shardVars, rehashing, queryCnt, rePut, gcCopy, lockVars, get >>

InitStat == InitShard(memOne)
NextStat ==
  \/ \E t \in Readers : \E op \in Lookups : \E k \in CallKeys : LookupCount(t, op, k)
  \/ \E t \in Readers : LookupProbe(t)
  \/ \E t \in Readers : LookupMiss(t)
  \/ \E k \in CallKeys : \E v \in CallVals(k) : PutCall(k, v)
  \/ \E k \in CallKeys : \E v \in CallVals(k) : RePutCall(k, v)
  \/ \E k \in CallKeys : DeleteCall(k)
  \/ ClearCall
  \/ EliminateCall
  \/ GCCopyCall
SpecStat == InitStat /\ [][NextStat]_vars

(***************************************************************************)
(* The calls of the workload as functions of the current state.            *)
(***************************************************************************)
GetOf(m, k) == GetResult(m, h(k), KeyBytes(k))
PresentIn(m, k) == find(m, h(k), KeyBytes(k)).kind = "hit"
PutOf(k, v) == Put(Shard, h(k), KeyBytes(k), Values[v])
PutMultiValueOf(k, v) ==
  LET vals == CHOOSE x \in Splits(Values[v]) : TRUE
  IN PutMultiValue(Shard, h(k), KeyBytes(k), Len(Values[v]), vals)
RePutOf(k, v) == RePut(Shard, rehashing, h(k), KeyBytes(k), Values[v])
DeleteOf(k) == Delete(Shard, h(k), KeyBytes(k))
\* GCCopy passes its two guards
GCCopyRuns == ~garbageBelowRate(Shard) /\ ~rehashing
GCCopyOf == GCCopyLocked(Shard, Len(groups)).m
\* every key but k reads in m2 as it reads now
KeptExcept(m2, k) ==
  \A o \in Keys \ {k} : GetOf(Shard, o).ok => GetOf(m2, o) = GetOf(Shard, o)

\* C2: in every state reached by Put, PutMultiValue, RePut (and its rehash),
\* Delete, Eliminate, GCCopy and Clear, Count() = resident - dead equals
\* Items() = kvHolder.items, and items + dead = resident.
CountConsistency ==
  /\ Count(Shard) = Items(Shard)
  /\ items + dead = resident
CountConsistencyWitness == items >= 1 /\ dead >= 1

\* C3: whatever RePut does (insert, update or fail), the state it returns in
\* has resident <= limit.
LoadBound ==
  \A k \in CallKeys : \A v \in CallVals(k) :
    RePutOf(k, v).m.resident <= RePutOf(k, v).m.limit
\* a RePut entered with resident = limit and no tombstone grows the table
\* and inserts
LoadBoundWitness ==
  \E k \in CallKeys : \E v \in CallVals(k) :
    /\ resident >= limit
    /\ dead = 0
    /\ RePutOf(k, v).ok
    /\ Len(RePutOf(k, v).m.groups) > Len(groups)
    /\ RePutOf(k, v).m.resident = resident + 1

\* C4: a Put, PutMultiValue or RePut that returns true leaves tail <= cap,
\* and one that returns false has not advanced tail.
MemoryBound ==
  \A k \in CallKeys : \A v \in CallVals(k) :
    \A r \in {PutOf(k, v), PutMultiValueOf(k, v), RePutOf(k, v)} :
      IF r.ok THEN r.m.tail <= kvCap(r.m) ELSE r.m.tail <= tail
\* an appending update of a present key that the arena has no room for, and
\* an insertion of an absent key that it has no room for
MemoryBoundWitness ==
  /\ \E k \in CallKeys : \E v \in CallVals(k) :
       /\ PresentIn(Shard, k)
       /\ Len(Values[v]) < limitSize
       /\ ~PutOf(k, v).ok
       /\ PutOf(k, v).m.tail = tail
  /\ \E k \in CallKeys : \E v \in CallVals(k) :
       /\ ~PresentIn(Shard, k)
       /\ tail < kvLimit(Shard)
       /\ ~RePutOf(k, v).ok

\* C5: when RePut(h(k), k, v) is called twice in a row and both calls return
\* true, Count() after the second call is Count() after the first, and Get
\* of the key returns v.
IdempotentRePut ==
  \A k \in CallKeys : \A v \in CallVals(k) :
    LET r1 == RePutOf(k, v)
        r2 == RePut(r1.m, rehashing, h(k), KeyBytes(k), Values[v])
    IN (r1.ok /\ r2.ok) =>
         /\ Count(r2.m) = Count(r1.m)
         /\ GetOf(r2.m, k) = [ok |-> TRUE, value |-> Values[v]]
\* another key is stored; the first call inserts the key and the second
\* updates it
IdempotentRePutWitness ==
  \E k \in CallKeys : \E v \in CallVals(k) :
    LET r1 == RePutOf(k, v)
        r2 == RePut(r1.m, rehashing, h(k), KeyBytes(k), Values[v])
    IN /\ items >= 1
       /\ ~PresentIn(Shard, k)
       /\ r1.ok
       /\ r2.ok
       /\ r1.m.items = items + 1

\* C6: a GCCopy that is not skipped leaves every key reading as before: a
\* key Get found with value v is found with v, and a key Get missed is missed.
GCPreservesContents ==
  GCCopyRuns => \A k \in Keys : GetOf(GCCopyOf, k) = GetOf(Shard, k)
\* a GCCopy that moves a live record and drops a tombstone
GCPreservesContentsWitness ==
  /\ GCCopyRuns
  /\ dead >= 1
  /\ \E k \in Keys : GetOf(Shard, k).ok /\ GCCopyOf.groups # groups
  /\ GCCopyOf.tail < tail

\* C10: Put and PutMultiValue of a key that is not present return false and
\* leave ctrl, groups, counters, resident, dead, items, valUsed and tail (and
\* the arena) as they were.
UpdateOnly ==
  \A k \in CallKeys : \A v \in CallVals(k) :
    ~PresentIn(Shard, k) =>
      /\ PutOf(k, v) = [m |-> Shard, ok |-> FALSE]
      /\ PutMultiValueOf(k, v) = [m |-> Shard, ok |-> FALSE]
\* the key is absent, its probe ends at an empty slot, and the record
\* would fit
UpdateOnlyWitness ==
  \E k \in CallKeys : \E v \in CallVals(k) :
    /\ find(Shard, h(k), KeyBytes(k)).kind = "empty"
    /\ items >= 1
    /\ RePutOf(k, v).ok

\* what RePut stores is what Get reads: a RePut of a value shorter than
\* limitSize that returns true leaves Get of the key returning that value
RePutThenGet ==
  \A k \in CallKeys : \A v \in CallVals(k) :
    (Len(Values[v]) < limitSize /\ RePutOf(k, v).ok) =>
      GetOf(RePutOf(k, v).m, k) = [ok |-> TRUE, value |-> Values[v]]
\* the calls that are no Put, PutMultiValue, RePut or Delete of the key
\* itself, no Eliminate and no Clear, leave what Get of the key returns
KeptByOtherCalls ==
  /\ \A k \in CallKeys : \A v \in CallVals(k) :
       /\ KeptExcept(PutOf(k, v).m, k)
       /\ KeptExcept(PutMultiValueOf(k, v).m, k)
       /\ KeptExcept(RePutOf(k, v).m, k)
  /\ \A k \in CallKeys : KeptExcept(DeleteOf(k).m, k)
  /\ GCCopyRuns => KeptExcept(GCCopyOf, 0)
\* Put and PutMultiValue of the key itself, and Clear, leave what Get of the
\* key returns
KeptByPutAndClear ==
  /\ \A k \in CallKeys : \A v \in CallVals(k) :
       /\ KeptExcept(PutOf(k, v).m, 0)
       /\ KeptExcept(PutMultiValueOf(k, v).m, 0)
  /\ KeptExcept(Clear(Shard), 0)

\* C1, as amended: a RePut(h(k), k, v) with |v| < limitSize that returns true
\* makes Get(h(k), k) return (v, true), and Get keeps returning it until a
\* Put, PutMultiValue, RePut or Delete of the same key, an Eliminate or a
\* Clear.
RoundTrip == RePutThenGet /\ KeptByOtherCalls
\* a RePut replaces the value of a present key while another key is stored
RoundTripWitness ==
  \E k \in CallKeys : \E v \in CallVals(k) :
    /\ items >= 2
    /\ Len(Values[v]) < limitSize
    /\ GetOf(Shard, k).ok
    /\ GetOf(Shard, k).value # Values[v]
    /\ RePutOf(k, v).ok
\* C1, as stated: the value is read back unless a RePut of the same key, a
\* Delete or an Eliminate intervened; every other call, Put and PutMultiValue
\* of the same key and Clear included, leaves what Get returns.
RoundTripAsStated == RePutThenGet /\ KeptByOtherCalls /\ KeptByPutAndClear

\* C7: the locked part of a GCCopy that was not skipped leaves dead = 0,
\* resident equal to the resident before it minus the dead before it, the
\* group count as it was and limit = maxAvgGroupLoad * G, no control byte
\* TOMBSTONE, and tail no larger than before.
AfterGCCopy ==
  [][GCCopyRun =>
       /\ dead' = 0
       /\ resident' = resident - dead
       /\ Len(groups') = Len(groups)
       /\ limit' = maxAvgGroupLoad * Len(groups')
       /\ \A g \in 1..Len(ctrl') : \A s \in 1..groupSize : ctrl'[g][s] # tombstone
       /\ tail' <= tail]_vars

\* C8: in every reachable state some group holds an EMPTY control byte, and
\* the probe for any key ends.
ProbeTermination ==
  /\ \E g \in 1..Len(ctrl) : metaMatchEmpty(ctrl[g]) # {}
  /\ \A k \in Keys : find(Shard, h(k), KeyBytes(k)).kind # "spin"

\* C9: the add of a Has that found its key leaves the slot counter at
\* min(maxCount, counter + 1): it neither passes maxCount nor wraps to 0.
CounterSaturation ==
  [][\A t \in Readers :
       HasAdd(t) =>
         counters'[readers[t].g][readers[t].s]
           = Min({maxCount, counters[readers[t].g][readers[t].s] + 1})]_vars

EliminateOf == Eliminate(Shard, queryCnt, missCnt)
\* both readers miss key k in shard m
Missed(m, k) == ~PresentIn(m, k) /\ ~GetOf(m, k).ok

\* Delete of a present key returns true and leaves Has and Get missing it;
\* Delete of an absent key returns false and the shard as it was
DeleteRemoves ==
  \A k \in CallKeys :
    IF PresentIn(Shard, k)
      THEN DeleteOf(k).ok /\ Missed(DeleteOf(k).m, k)
      ELSE DeleteOf(k) = [m |-> Shard, ok |-> FALSE]
\* a key that Has and Get miss stays missed by every call but a RePut of the
\* key that returns true
StaysMissed ==
  \A k \in Keys :
    Missed(Shard, k) =>
      /\ \A j \in CallKeys : \A v \in CallVals(j) :
           /\ Missed(PutOf(j, v).m, k)
           /\ Missed(PutMultiValueOf(j, v).m, k)
           /\ (j # k \/ ~RePutOf(j, v).ok) => Missed(RePutOf(j, v).m, k)
      /\ \A j \in CallKeys : Missed(DeleteOf(j).m, k)
      /\ Missed(Clear(Shard), k)
      /\ Missed(EliminateOf.m, k)
      /\ GCCopyRuns => Missed(GCCopyOf, k)

\* C11: Delete of a present key returns true, and Has and Get of the key
\* miss from then on until a RePut of the key returns true; Delete of an
\* absent key returns false and changes nothing.
DeleteContract == DeleteRemoves /\ StaysMissed
\* a Delete in a full group, which leaves a tombstone, with another key
\* stored, and a Delete of an absent key
DeleteContractWitness ==
  /\ \E k \in CallKeys :
       /\ PresentIn(Shard, k)
       /\ items >= 2
       /\ DeleteOf(k).m.dead = dead + 1
  /\ \E k \in CallKeys : ~PresentIn(Shard, k)

\* the shard as RePut probes it: after its rehash when resident >= limit
RePutProbed == IF resident >= limit THEN rehash(Shard).m ELSE Shard
\* RePut passes the two checks it makes before taking putLock
RePutEnters == tail < kvLimit(Shard) /\ ~rehashing
\* in shard m key k is in a type-0 slot whose reserved capacity holds n bytes
\* and n is a small length
FitsInPlace(m, k, n) ==
  LET p == find(m, h(k), KeyBytes(k))
  IN /\ p.kind = "hit"
     /\ valType(m.groups[p.g][p.s]) = 0
     /\ n < overShortSize
     /\ n <= capOrBigSize(m.groups[p.g][p.s]) * 4
\* result r of updating key k of shard m with value v returned true, wrote
\* the value and left tail, valUsed and the key's descriptor as they were
UpdatedInPlace(m, r, k, v) ==
  LET p == find(m, h(k), KeyBytes(k))
  IN /\ r.ok
     /\ r.m.tail = m.tail
     /\ r.m.valUsed = m.valUsed
     /\ r.m.groups[p.g][p.s] = m.groups[p.g][p.s]
     /\ GetOf(r.m, k) = [ok |-> TRUE, value |-> Values[v]]

LayoutOf(m, k) ==
  LET p == find(m, h(k), KeyBytes(k))
      kidx == m.groups[p.g][p.s]
      vHeader == LoadUint32(m.data, offset(kidx) * 4 + 16)
  IN IF p.kind # "hit" THEN "none"
     ELSE IF valType(kidx) = 0 THEN "small"
     ELSE IF vHeader \div idxOffsetSize + capOrBigSize(kidx) * 256 = overLongSize
       THEN "long"
     ELSE "medium"

\* C13: a Put of an existing key that returns true, whatever the layout of
\* the old value and the length class of the new one, makes Get return the
\* new value, with its length.
LayoutPromotion ==
  \A k \in CallKeys : \A v \in CallVals(k) :
    (PresentIn(Shard, k) /\ PutOf(k, v).ok) =>
      /\ GetOf(PutOf(k, v).m, k) = [ok |-> TRUE, value |-> Values[v]]
      /\ Len(GetOf(PutOf(k, v).m, k).value) = Len(Values[v])
\* a key stored in the long layout that Put rewrites in each of the three
\* layouts
LayoutPromotionWitness ==
  \E k \in CallKeys :
    /\ LayoutOf(Shard, k) = "long"
    /\ \A c \in {"small", "medium", "long"} :
         \E v \in CallVals(k) :
           /\ PutOf(k, v).ok
           /\ LayoutOf(PutOf(k, v).m, k) = c
           /\ PutOf(k, v).m.tail > tail

\* result r of a call on key k returned false and turned the slot that held
\* the key into a tombstone: dead one more, items one less, counter 0, and
\* Get misses the key
Tombstoned(m, r, k) ==
  LET p == find(m, h(k), KeyBytes(k))
  IN /\ ~r.ok
     /\ r.m.ctrl[p.g][p.s] = tombstone
     /\ r.m.dead = m.dead + 1
     /\ r.m.items = m.items - 1
     /\ r.m.counters[p.g][p.s] = 0
     /\ ~GetOf(r.m, k).ok

\* C14: a Put or PutMultiValue of an existing key with a value of length
\* >= limitSize returns false, makes the slot a tombstone, increments dead,
\* decrements items, zeroes the counter, and Get of the key misses.
OversizePut ==
  \A k \in CallKeys : \A v \in CallVals(k) :
    (PresentIn(Shard, k) /\ Len(Values[v]) >= limitSize) =>
      /\ Tombstoned(Shard, PutOf(k, v), k)
      /\ Tombstoned(Shard, PutMultiValueOf(k, v), k)
\* a stored key with a counter above 0, another key stored, and a value of
\* the rejected length
OversizePutWitness ==
  \E k \in CallKeys : \E v \in CallVals(k) :
    LET p == find(Shard, h(k), KeyBytes(k))
    IN /\ p.kind = "hit"
       /\ Len(Values[v]) >= limitSize
       /\ counters[p.g][p.s] > 0
       /\ items >= 2

\* C15: a RePut with a value of length >= limitSize returns false and does
\* not store the value: an absent key is not inserted, and the slot of a
\* present key becomes a tombstone as in Put.
OversizeRePut ==
  \A k \in CallKeys : \A v \in CallVals(k) :
    Len(Values[v]) >= limitSize =>
      /\ ~RePutOf(k, v).ok
      /\ GetOf(RePutOf(k, v).m, k) # [ok |-> TRUE, value |-> Values[v]]
      /\ ~PresentIn(Shard, k) => ~PresentIn(RePutOf(k, v).m, k)
      /\ (RePutEnters /\ PresentIn(Shard, k)) =>
           Tombstoned(RePutProbed, RePutOf(k, v), k)

\* the bytes an appending update adds to the arena for a value of n bytes:
\* the value rounded up to words, and the length prefix of a long value
AppendBytes(n) == IF n >= overLongSize THEN Cap4Size(n) + 4 ELSE Cap4Size(n)
\* in shard m an update of key k with a value of n bytes appends, and the
\* arena has no room for the bytes
AppendOverflows(m, k, n) ==
  /\ PresentIn(m, k)
  /\ ~FitsInPlace(m, k, n)
  /\ m.tail + AppendBytes(n) > kvCap(m)

RehashSize(m) ==
  LET G == Len(m.groups)
  IN IF m.dead >= m.resident \div 2 THEN G
     ELSE CHOOSE n \in G..(2 * G) : 10 * n >= 12 * G /\ 10 * (n - 1) < 12 * G

\* C17: a RePut entered with resident >= limit rehashes before it probes:
\* the table it probes and leaves has the group count of RehashSize and
\* limit = maxAvgGroupLoad * that count, and the rehash leaves dead = 0 and
\* resident = the number of live keys; with no tombstone the table grows.
RehashSizing ==
  (RePutEnters /\ resident >= limit) =>
    /\ Len(RePutProbed.groups) = RehashSize(Shard)
    /\ RePutProbed.limit = maxAvgGroupLoad * RehashSize(Shard)
    /\ RePutProbed.dead = 0
    /\ RePutProbed.resident = Cardinality(liveSlots(Shard))
    /\ RePutProbed.resident = items
    /\ RePutProbed.resident < RePutProbed.limit
    /\ dead = 0 => Len(RePutProbed.groups) > Len(groups)
    /\ \A k \in CallKeys : \A v \in CallVals(k) :
         /\ Len(RePutOf(k, v).m.groups) = RehashSize(Shard)
         /\ RePutOf(k, v).m.limit = maxAvgGroupLoad * RehashSize(Shard)
\* a RePut that finds a table of two groups at its limit, one slot of it a
\* tombstone: the rehash grows the table to three groups, drops the
\* tombstone, and the call goes on to write its value
RehashSizingWitness ==
  /\ RePutEnters
  /\ Len(groups) = 2
  /\ resident >= limit
  /\ dead >= 1
  /\ Len(RePutProbed.groups) = 3
  /\ \E k \in CallKeys : \E v \in CallVals(k) : RePutOf(k, v).ok

\* the slots of shard m that hold key k
SlotsOf(m, k) ==
  { gs \in liveSlots(m) : getKey(m, m.groups[gs[1]][gs[2]]) = KeyBytes(k) }
\* the LFU counter of key k in shard m
CounterOf(m, k) ==
  LET p == find(m, h(k), KeyBytes(k)) IN m.counters[p.g][p.s]

\* C18: the rehash a RePut runs keeps every key that Get found: Get finds
\* it with the same value, it is in exactly one slot of the new table, and
\* its counter is the one it had.
RehashPreserves ==
  (RePutEnters /\ resident >= limit) =>
    \A k \in Keys :
      GetOf(Shard, k).ok =>
        /\ GetOf(RePutProbed, k) = GetOf(Shard, k)
        /\ Cardinality(SlotsOf(RePutProbed, k)) = 1
        /\ CounterOf(RePutProbed, k) = CounterOf(Shard, k)
\* a rehash of a table that holds two keys whose counters differ, one of
\* them not in the small layout
RehashPreservesWitness ==
  /\ RePutEnters
  /\ resident >= limit
  /\ \E k \in Keys : \E j \in Keys :
       /\ PresentIn(Shard, k)
       /\ PresentIn(Shard, j)
       /\ CounterOf(Shard, k) # CounterOf(Shard, j)
       /\ LayoutOf(Shard, k) # "small"


(***************************************************************************)
(* Eliminate's skip guards.                                                *)
(***************************************************************************)
\* the query and miss counts Eliminate may read: no more misses than queries
QueryCounts == { qm \in (0..MaxQuery) \X (0..MaxQuery) : qm[2] <= qm[1] }
\* miss_cnt / query_cnt < eliminateMissRate
LowMissRate(qc, mc) == qc > 0 /\ mc * 100 < eliminateMissRate * qc
\* itemsMemUsage < eliminateStart
LowPressure(m) == ItemsUsedMem(m) * 100 < eliminateStart * kvCap(m)
\* ceil(items * (eliminateStart - eliminateEnd) / eliminateStart)
DropCount(m) ==
  CHOOSE n \in 0..m.items :
    /\ n * eliminateStart >= m.items * (eliminateStart - eliminateEnd)
    /\ n = 0 \/ (n - 1) * eliminateStart < m.items * (eliminateStart - eliminateEnd)

\* C19: Eliminate returns skipReason1 when the miss rate is below
\* eliminateMissRate, else skipReason2 when the memory usage of the items is
\* below eliminateStart, else skipReason3 when the number of slots to drop is
\* 0; a skipped call reports delCount 0 and leaves the shard as it was.
SkipGuards ==
  \A qm \in QueryCounts :
    LET r == Eliminate(Shard, qm[1], qm[2])
        low == LowMissRate(qm[1], qm[2])
    IN /\ low => r.skipReason = skipReason1
       /\ (~low /\ LowPressure(Shard)) => r.skipReason = skipReason2
       /\ (~low /\ ~LowPressure(Shard) /\ DropCount(Shard) = 0)
            => r.skipReason = skipReason3
       /\ (~low /\ ~LowPressure(Shard) /\ DropCount(Shard) > 0)
            => r.skipReason = 0
       /\ r.skipReason # 0 => (r.delCount = 0 /\ r.m = Shard)
SkipGuardsWitness ==
  /\ ~LowPressure(Shard)
  /\ DropCount(Shard) > 0
  /\ \E qm \in QueryCounts :
       /\ LowMissRate(qm[1], qm[2])
       /\ Eliminate(Shard, qm[1], qm[2]).skipReason = skipReason1
  /\ \E qm \in QueryCounts :
       /\ qm[1] > 0
       /\ Eliminate(Shard, qm[1], qm[2]).delCount > 0


(***************************************************************************)
(* Eviction by Eliminate.                                                  *)
(***************************************************************************)
\* the slots that are live in shard m and not in shard r
Removed(m, r) == liveSlots(m) \ liveSlots(r)

\* C20: an Eliminate that is not skipped tombstones as many live slots as
\* it set out to drop, at least one; dead grows and items shrinks by that
\* count; no removed slot had a larger counter than a surviving slot; and
\* Has and Get no longer find the keys of the removed slots.
EvictsLowest ==
  \A qm \in QueryCounts :
    LET r == Eliminate(Shard, qm[1], qm[2])
        gone == Removed(Shard, r.m)
    IN r.skipReason = 0 =>
         /\ r.delCount > 0
         /\ r.delCount = DropCount(Shard)
         /\ Cardinality(gone) = r.delCount
         /\ liveSlots(r.m) \subseteq liveSlots(Shard)
         /\ \A a \in gone : r.m.ctrl[a[1]][a[2]] = tombstone
         /\ r.m.dead = dead + r.delCount
         /\ r.m.items = items - r.delCount
         /\ \A a \in gone : \A b \in liveSlots(r.m) :
              counters[a[1]][a[2]] <= counters[b[1]][b[2]]
         /\ \A k \in Keys :
              SlotsOf(Shard, k) \cap gone # {} => Missed(r.m, k)
EvictsLowestWitness ==
  LET r == EliminateOf
      gone == Removed(Shard, r.m)
  IN /\ r.skipReason = 0
     /\ \E a \in gone : \E b \in liveSlots(r.m) :
          counters[a[1]][a[2]] < counters[b[1]][b[2]]
     /\ \E k \in Keys : PresentIn(Shard, k) /\ Missed(r.m, k)


\* the selection threshold of an eviction from m to r: the largest counter
\* among the slots it removed
Threshold(m, r) ==
  Max({ m.counters[a[1]][a[2]] : a \in Removed(m, r) })

\* C21: after an Eliminate that was not skipped every slot's counter is its
\* old counter less the selection threshold, or 0 where the old counter is
\* below the threshold, and every slot it tombstoned has counter 0.
EvictionAging ==
  \A qm \in QueryCounts :
    LET r == Eliminate(Shard, qm[1], qm[2])
        x == Threshold(Shard, r.m)
    IN r.skipReason = 0 =>
         /\ \A g \in 1..Len(ctrl) : \A s \in 1..groupSize :
              r.m.counters[g][s] =
                IF counters[g][s] > x THEN counters[g][s] - x ELSE 0
         /\ \A a \in Removed(Shard, r.m) : r.m.counters[a[1]][a[2]] = 0
\* an eviction with a positive threshold from a table that holds a counter
\* above the threshold and a counter below it
EvictionAgingWitness ==
  LET r == EliminateOf
      x == Threshold(Shard, r.m)
  IN /\ r.skipReason = 0
     /\ x > 0
     /\ \E g \in 1..Len(ctrl) : \E s \in 1..groupSize :
          counters[g][s] > x /\ r.m.counters[g][s] = counters[g][s] - x
     /\ \E g \in 1..Len(ctrl) : \E s \in 1..groupSize :
          counters[g][s] < x /\ r.m.counters[g][s] = 0


\* C22: the rehashing flag is owned by one maintenance operation at a time:
\* from the moment GCCopy sets it until GCCopy itself clears it the flag
\* stays set, so no RePut clears it and no second GCCopy passes the guard
\* meanwhile.
SingleFlight ==
  gcCopy.pc \in {"locking", "unlocked"} => rehashing


(***************************************************************************)
(* PutMultiValue against Put.                                              *)
(***************************************************************************)
\* ways of cutting value v into pieces: one piece, two pieces cut at either
\* end or next to it (an empty piece included), and three pieces
Pieces(v) ==
  { << v >> }
    \cup { << SubSeq(v, 1, i), SubSeq(v, i + 1, Len(v)) >> :
             i \in {0, 1, Len(v) - 1, Len(v)} }
    \cup { << SubSeq(v, 1, 1), SubSeq(v, 2, 2), SubSeq(v, 3, Len(v)) >> }
\* the pieces of vals one after the other
RECURSIVE Concat(_)
Concat(vals) == IF vals = << >> THEN << >> ELSE Head(vals) \o Concat(Tail(vals))

\* C25: for every key, value and way of cutting the value into pieces,
\* PutMultiValue of the pieces with vlen their total length returns what Put
\* of the whole value returns and leaves the same ctrl, counters, resident,
\* dead, items, valUsed and tail, and Get reads every key the same.
PutMultiValueAsPut ==
  \A k \in Keys : \A v \in 1..NumVals : \A vals \in Pieces(Values[v]) :
    LET a == PutMultiValue(Shard, h(k), KeyBytes(k), Len(Values[v]), vals)
        b == Put(Shard, h(k), KeyBytes(k), Concat(vals))
    IN /\ a.ok = b.ok
       /\ a.m.ctrl = b.m.ctrl
       /\ a.m.counters = b.m.counters
       /\ a.m.resident = b.m.resident
       /\ a.m.dead = b.m.dead
       /\ a.m.items = b.m.items
       /\ a.m.valUsed = b.m.valUsed
       /\ a.m.tail = b.m.tail
       /\ \A o \in Keys : GetOf(a.m, o) = GetOf(b.m, o)
\* a present key whose value PutMultiValue replaces from three pieces in
\* place, and one whose value it replaces by appending to the arena
PutMultiValueAsPutWitness ==
  /\ \E k \in Keys : \E v \in 1..NumVals : \E vals \in Pieces(Values[v]) :
       LET a == PutMultiValue(Shard, h(k), KeyBytes(k), Len(Values[v]), vals)
       IN /\ Len(vals) = 3
          /\ a.ok
          /\ a.m.tail = tail
          /\ GetOf(a.m, k) = [ok |-> TRUE, value |-> Values[v]]
          /\ GetOf(Shard, k) # GetOf(a.m, k)
  /\ \E k \in Keys : \E v \in 1..NumVals : \E vals \in Pieces(Values[v]) :
       LET a == PutMultiValue(Shard, h(k), KeyBytes(k), Len(Values[v]), vals)
       IN /\ Len(vals) = 3
          /\ a.ok
          /\ a.m.tail > tail
          /\ GetOf(a.m, k) = [ok |-> TRUE, value |-> Values[v]]


\* C26: Clear leaves every control byte empty, every counter and descriptor
\* 0, resident = dead = 0 and Items() = 0, so that Has and Get miss every
\* key, and keeps the group count, the limit and the arena capacity.
ClearEmpties ==
  LET r == Clear(Shard)
  IN /\ \A g \in 1..Len(r.ctrl) : \A s \in 1..groupSize :
          /\ r.ctrl[g][s] = empty
          /\ r.counters[g][s] = 0
          /\ r.groups[g][s] = 0
     /\ r.resident = 0
     /\ r.dead = 0
     /\ Items(r) = 0
     /\ \A k \in Keys : Missed(r, k)
     /\ Len(r.groups) = Len(groups)
     /\ Len(r.ctrl) = Len(ctrl)
     /\ Len(r.counters) = Len(counters)
     /\ r.limit = limit
     /\ kvCap(r) = kvCap(Shard)
\* Clear of a shard that holds live keys, a tombstone and a positive counter
ClearEmptiesWitness ==
  /\ items >= 2
  /\ dead >= 1
  /\ \E k \in Keys : PresentIn(Shard, k) /\ CounterOf(Shard, k) > 0
  /\ \A k \in Keys : Missed(Clear(Shard), k)


\* C27: in every reachable state, also after a rehash run by RePut between
\* GCCopy's checks and its copy, limit is maxAvgGroupLoad times the number of
\* groups, and groups, ctrl and counters have the same number of groups.
LimitMatchesTable ==
  /\ limit = maxAvgGroupLoad * Len(groups)
  /\ Len(groups) = Len(ctrl)
  /\ Len(ctrl) = Len(counters)


\* the slots of m whose control byte is b, and those whose control byte is
\* not empty
SlotsWith(m, b) ==
  { gs \in (1..Len(m.ctrl)) \X (1..groupSize) : m.ctrl[gs[1]][gs[2]] = b }
NonEmptySlots(m) ==
  { gs \in (1..Len(m.ctrl)) \X (1..groupSize) : m.ctrl[gs[1]][gs[2]] # empty }

\* C28: when no writer is in flight, resident is the number of control
\* bytes that are not empty and dead is the number of tombstones, so dead is
\* at most resident and Count() and Capacity() do not wrap.
StructuralCounters ==
  /\ resident = Cardinality(NonEmptySlots(Shard))
  /\ dead = Cardinality(SlotsWith(Shard, tombstone))
  /\ dead <= resident
  /\ Count(Shard) = resident - dead
  /\ Capacity(Shard) = limit - resident

\* a table with a tombstone, two live slots and an empty slot
StructuralCountersWitness ==
  /\ Cardinality(SlotsWith(Shard, tombstone)) >= 1
  /\ Cardinality(liveSlots(Shard)) >= 2
  /\ Cardinality(SlotsWith(Shard, empty)) >= 1
  /\ Capacity(Shard) >= 1


\* C24: what a writer decides on and returns is read under putLock: when
\* RePut takes putLock the arena still has room below the limit and no
\* maintenance owns the shard, as its checks found, and when GCCopy takes
\* putLock the group count, the tombstone count and the tail it read are
\* those of the shard.
DecidedUnderPutLock ==
  /\ rePut.pc = "locking" => (tail < kvLimit(Shard) /\ ~rehashing)
  /\ gcCopy.pc = "locking" =>
       /\ gcCopy.n = Len(groups)
       /\ gcCopy.deadCount = dead
       /\ gcCopy.oldUsed = tail


(***************************************************************************)
(* Lock ordering.                                                          *)
(***************************************************************************)
\* thread t holds the RWMutex, as a reader or as the writer (from the
\* moment it has announced itself)
HoldsRW(t, lock) == t \in RW(lock).r \/ RW(lock).w = t
\* the threads that thread t waits for at the statement it is at
WaitsFor(t) ==
  IF ~InFlight(t) THEN {}
  ELSE IF At(t).kind = "Lock" /\ At(t).lock = "putLock"
    THEN IF putLock = 0 THEN {} ELSE {putLock}
  ELSE IF At(t).kind = "Lock"
    THEN IF calls[t].wait THEN RW(At(t).lock).r
         ELSE IF RW(At(t).lock).w = 0 THEN {} ELSE {RW(At(t).lock).w}
  ELSE IF At(t).kind = "RLock"
    THEN IF RW(At(t).lock).w = 0 THEN {} ELSE {RW(At(t).lock).w}
  ELSE {}
\* the threads that the threads of S wait for, directly or through others
RECURSIVE WaitClosure(_, _)
WaitClosure(S, n) ==
  IF n = 0 THEN S
  ELSE WaitClosure(S \cup UNION { WaitsFor(u) : u \in S }, n - 1)
Deadlocked(t) == t \in WaitClosure(WaitsFor(t), NumThreads)

\* C23: a call takes putLock while it holds neither rehashLock nor the arena
\* mutex, Has and Get never hold putLock, and in no state reached by
\* overlapping calls does a thread wait, directly or through other threads,
\* for itself; while a call is in flight some thread can take its next
\* step.
LockOrdering ==
  /\ \A t \in Threads :
       /\ (AtKind(t, "Lock") /\ At(t).lock = "putLock")
            => (~HoldsRW(t, "rehashLock") /\ ~HoldsRW(t, "mutex"))
       /\ calls[t].op \in {"Has", "Get"} => putLock # t
       /\ ~Deadlocked(t)
  /\ (\E t \in Threads : InFlight(t))
       => \E t \in Threads : InFlight(t) /\ WaitsFor(t) = {}
\* a writer that holds putLock has announced itself at rehashLock and waits
\* for a reader, which holds rehashLock and the arena mutex
LockOrderingWitness ==
  \E t \in Threads : \E u \in Threads :
    /\ putLock = t
    /\ WaitsFor(t) = {u}
    /\ calls[u].op \in {"Has", "Get"}
    /\ u \in rehashLock.r
    /\ u \in mutex.r


\* thread t runs Has or Get
Reads(t) == calls[t].op \in {"Has", "Get"}

\* C29: Has and Get hold rehashLock.RLock at every access they make to the
\* table and the arena, the arrays and the arena are replaced only by a
\* thread that holds rehashLock.Lock, and so no replacement happens while a
\* reader is between its RLock and its RUnlock.
ReadersKeepTable ==
  /\ \A t \in Threads :
       (Reads(t) /\ At(t).kind = "use") => t \in rehashLock.r
  /\ \A t \in Threads :
       AtKind(t, "swap") =>
         /\ rehashLock.w = t
         /\ rehashLock.r = {}
         /\ \A u \in Threads : Reads(u) => calls[u].pc = 1
\* a table is about to be replaced while a Has or Get waits at its RLock
ReadersKeepTableWitness ==
  \E t \in Threads : \E u \in Threads :
    /\ AtKind(t, "swap")
    /\ Reads(u)
    /\ WaitsFor(u) = {t}


\* C30: a Get that overlaps Put on its key and finds the key returns one of
\* the values stored for the key, whole.
NoTornRead ==
  get.pc = "done" => get.value \in { Values[v] : v \in 1..NumVals }


\* C31: a thread that stores a slot descriptor or a value header holds the
\* arena mutex or rehashLock as the writer, on the paths that give a slot up
\* as on the others.
DescriptorWritesLocked ==
  \A t \in Threads :
    (AtKind(t, "write") /\ At(t).lock = "descriptor")
      => (mutex.w = t \/ rehashLock.w = t)


\* C32: Has and Get compare the probed key with the key in the arena (and
\* Get copies the value) while they hold the arena mutex as a reader.
KeyComparedUnderLock ==
  \A t \in Threads :
    (Reads(t) /\ AtKind(t, "use") /\ At(t).lock = "key") => t \in mutex.r


(***************************************************************************)
(* Delete's slot transition.                                               *)
(***************************************************************************)
\* the groups of shard m that hold an empty control byte
GroupsWithEmpty(m) ==
  { g \in DOMAIN m.ctrl : metaMatchEmpty(m.ctrl[g]) # {} }

\* C33: Delete of a present key turns its slot into empty and takes 1 off
\* resident when the slot's group holds an empty control byte, and into a
\* tombstone and adds 1 to dead when it holds none; either way the slot's
\* counter becomes 0, items drops by 1, no other control byte changes, and
\* a group with no empty byte has none afterwards.
DeleteTransition ==
  \A k \in CallKeys :
    LET p == find(Shard, h(k), KeyBytes(k))
        r == DeleteOf(k).m
    IN p.kind = "hit" =>
         /\ DeleteOf(k).ok
         /\ IF p.g \in GroupsWithEmpty(Shard)
              THEN /\ r.ctrl[p.g][p.s] = empty
                   /\ r.resident = resident - 1
                   /\ r.dead = dead
              ELSE /\ r.ctrl[p.g][p.s] = tombstone
                   /\ r.dead = dead + 1
                   /\ r.resident = resident
         /\ r.counters[p.g][p.s] = 0
         /\ r.items = items - 1
         /\ \A g \in DOMAIN ctrl : \A s \in DOMAIN ctrl[g] :
              << g, s >> # << p.g, p.s >> => r.ctrl[g][s] = ctrl[g][s]
         /\ GroupsWithEmpty(r) \subseteq GroupsWithEmpty(Shard)
\* a present key with a counter above 0 in a group without an empty byte,
\* after an earlier tombstone
DeleteTransitionWitness ==
  \E k \in CallKeys :
    LET p == find(Shard, h(k), KeyBytes(k))
    IN /\ p.kind = "hit"
       /\ p.g \notin GroupsWithEmpty(Shard)
       /\ counters[p.g][p.s] > 0
       /\ dead > 0


(***************************************************************************)
(* Tombstones.                                                             *)
(***************************************************************************)
\* shard r has the groups of shard m and a tombstone wherever m has one
KeepsTombstones(m, r) ==
  /\ Len(r.ctrl) = Len(m.ctrl)
  /\ \A g \in DOMAIN m.ctrl : \A s \in DOMAIN m.ctrl[g] :
       m.ctrl[g][s] = tombstone => r.ctrl[g][s] = tombstone
\* shard m holds no tombstone
NoTombstone(m) ==
  \A g \in DOMAIN m.ctrl : \A s \in DOMAIN m.ctrl[g] : m.ctrl[g][s] # tombstone

\* C34: Put, PutMultiValue, Delete and Eliminate leave every tombstone a
\* tombstone, and so does RePut in the table it probes (the one its own
\* rehash built when it rehashes); the tables built by rehash and GCCopy
\* hold no tombstone.
TombstonesStay ==
  /\ \A k \in CallKeys : \A v \in CallVals(k) :
       /\ KeepsTombstones(Shard, PutOf(k, v).m)
       /\ KeepsTombstones(Shard, PutMultiValueOf(k, v).m)
       /\ (RePutEnters /\ ~RePutSpins(Shard, h(k), KeyBytes(k)))
            => KeepsTombstones(RePutProbed, RePutOf(k, v).m)
       /\ ~RePutEnters => RePutOf(k, v).m = Shard
  /\ \A k \in CallKeys : KeepsTombstones(Shard, DeleteOf(k).m)
  /\ KeepsTombstones(Shard, EliminateOf.m)
  /\ ~rehash(Shard).spin => NoTombstone(rehash(Shard).m)
  /\ GCCopyRuns => NoTombstone(GCCopyOf)
\* a tombstone in a group that also holds an empty slot above it, a RePut
\* that inserts an absent key without rehashing, and a present key to
\* delete
TombstonesStayWitness ==
  /\ \E g \in DOMAIN ctrl : \E s \in DOMAIN ctrl[g] :
       /\ ctrl[g][s] = tombstone
       /\ \E e \in DOMAIN ctrl[g] : e > s /\ ctrl[g][e] = empty
  /\ resident < limit
  /\ \E k \in CallKeys : \E v \in CallVals(k) :
       ~PresentIn(Shard, k) /\ RePutOf(k, v).ok
  /\ \E k \in CallKeys : PresentIn(Shard, k)


(***************************************************************************)
(* RePut's insertion.                                                      *)
(***************************************************************************)
\* the i-th group of the probe sequence of hash l in shard m, from i = 0
ProbeGroup(m, l, i) ==
  ((probeStart(splitHashHi(l), Len(m.groups)) - 1 + i) % Len(m.groups)) + 1
\* the bytes a value of n bytes takes in the arena
ValueCapacity(n) == IF n >= overLongSize THEN Cap4Size(n) + 4 ELSE Cap4Size(n)

\* C35: RePut of an absent key whose record fits (tail + 20 + capacity <=
\* cap) returns true and writes the entry into the lowest empty slot of the
\* first group of the key's probe sequence that holds an empty byte: the
\* control byte becomes the tag, the counter 1, resident and items grow by
\* 1, tail by 20 + capacity, and no other slot changes; when the record does
\* not fit RePut returns false and leaves the table it probed as it was.
RePutInsertStep ==
  \A k \in CallKeys : \A v \in CallVals(k) :
    LET m == RePutProbed
        l == h(k)
        r == RePutOf(k, v)
        first == Min({ i \in 0..(Len(m.groups) - 1) :
                         metaMatchEmpty(m.ctrl[ProbeGroup(m, l, i)]) # {} })
        g == ProbeGroup(m, l, first)
        s == Min(metaMatchEmpty(m.ctrl[g]))
        need == 20 + ValueCapacity(Len(Values[v]))
    IN (/\ RePutEnters
        /\ ~RePutSpins(Shard, l, KeyBytes(k))
        /\ ~PresentIn(m, k)) =>
         IF m.tail + need <= kvCap(m)
           THEN /\ r.ok
                /\ r.m.ctrl = [m.ctrl EXCEPT ![g][s] = splitHashLo(l)]
                /\ r.m.counters = [m.counters EXCEPT ![g][s] = 1]
                /\ \A g2 \in DOMAIN m.groups : \A s2 \in DOMAIN m.groups[g2] :
                     << g2, s2 >> # << g, s >> => r.m.groups[g2][s2] = m.groups[g2][s2]
                /\ getKey(r.m, r.m.groups[g][s]) = KeyBytes(k)
                /\ r.m.resident = m.resident + 1
                /\ r.m.items = m.items + 1
                /\ r.m.dead = m.dead
                /\ r.m.tail = m.tail + need
           ELSE r = [m |-> m, ok |-> FALSE]
\* an insertion that fits beside a stored key and below a tombstone or a
\* used slot, and an insertion that does not fit
RePutInsertStepWitness ==
  /\ \E k \in CallKeys : \E v \in CallVals(k) :
       /\ RePutEnters
       /\ ~PresentIn(Shard, k)
       /\ resident < limit
       /\ metaMatchEmpty(ctrl[ProbeGroup(Shard, h(k), 0)]) # {}
       /\ Min(metaMatchEmpty(ctrl[ProbeGroup(Shard, h(k), 0)])) > 1
       /\ RePutOf(k, v).ok
  /\ \E k \in CallKeys : \E v \in CallVals(k) :
       /\ RePutEnters
       /\ ~PresentIn(Shard, k)
       /\ resident < limit
       /\ metaMatchEmpty(ctrl[ProbeGroup(Shard, h(k), 0)]) # {}
       /\ ~RePutOf(k, v).ok


(***************************************************************************)
(* The accounting of an update that appends.                               *)
(***************************************************************************)
\* result r of updating key k of shard m with a value of n bytes advanced
\* tail by the capacity of the new value and replaced, in valUsed, the
\* capacity of the old value by that of the new
AppendedExactly(m, r, k, n) ==
  LET p == find(m, h(k), KeyBytes(k))
  IN /\ r.tail = m.tail + ValueCapacity(n)
     /\ r.valUsed = m.valUsed - valCap(m, m.groups[p.g][p.s]) + ValueCapacity(n)

\* C36: an update by Put, PutMultiValue or RePut that returns true and is
\* not made in place advances tail by exactly the capacity of the new value
\* (Cap4Size of its length, plus 4 for a long value), takes the capacity of
\* the old value off valUsed and adds that of the new.
AppendAccounting ==
  \A k \in CallKeys : \A v \in CallVals(k) :
    (PresentIn(RePutProbed, k) /\ ~FitsInPlace(Shard, k, Len(Values[v]))) =>
      /\ PutOf(k, v).ok
           => AppendedExactly(Shard, PutOf(k, v).m, k, Len(Values[v]))
      /\ PutMultiValueOf(k, v).ok
           => AppendedExactly(Shard, PutMultiValueOf(k, v).m, k, Len(Values[v]))
      /\ (RePutEnters /\ ~RePutSpins(Shard, h(k), KeyBytes(k)) /\ RePutOf(k, v).ok)
           => AppendedExactly(RePutProbed, RePutOf(k, v).m, k, Len(Values[v]))


(***************************************************************************)
(* valUsed.                                                                *)
(***************************************************************************)
\* the bytes the values of the slots S of shard m occupy
RECURSIVE SumCap(_, _)
SumCap(m, S) ==
  IF S = {} THEN 0
  ELSE LET e == CHOOSE e \in S : TRUE
       IN valCap(m, m.groups[e[1]][e[2]]) + SumCap(m, S \ {e})

\* C37: in every state reached by Put, PutMultiValue, RePut, Delete,
\* Eliminate, rehash and GCCopy, valUsed is the sum, over the occupied
\* slots, of the bytes their values occupy (length prefix included).
ValUsedExact == valUsed = SumCap(Shard, liveSlots(Shard))


(***************************************************************************)
(* Key uniqueness.                                                         *)
(***************************************************************************)
\* the occupied slots of shard m whose record holds key k
CopiesOf(m, k) ==
  { gs \in liveSlots(m) : getKey(m, m.groups[gs[1]][gs[2]]) = KeyBytes(k) }
\* the slot at which the probe for key k in shard m ends with a match
FoundAt(m, k) ==
  LET p == find(m, h(k), KeyBytes(k))
  IN IF p.kind = "hit" THEN { << p.g, p.s >> } ELSE {}

\* C38: every key is held by at most one occupied slot, and the probe for
\* the key reaches that slot before it reaches an empty byte; a RePut of a
\* present key that returns true leaves the key in that one slot.
KeyUniqueness ==
  /\ \A k \in Keys :
       /\ Cardinality(CopiesOf(Shard, k)) <= 1
       /\ CopiesOf(Shard, k) = FoundAt(Shard, k)
  /\ \A k \in CallKeys : \A v \in CallVals(k) :
       (/\ RePutEnters
        /\ ~RePutSpins(Shard, h(k), KeyBytes(k))
        /\ PresentIn(RePutProbed, k)
        /\ RePutOf(k, v).ok)
         => CopiesOf(RePutOf(k, v).m, k) = FoundAt(RePutProbed, k)
\* a key stored beside a tombstone left by an earlier call, and a RePut of
\* the key that succeeds
KeyUniquenessWitness ==
  /\ dead >= 1
  /\ \E k \in CallKeys : \E v \in CallVals(k) :
       /\ RePutEnters
       /\ ~RePutSpins(Shard, h(k), KeyBytes(k))
       /\ PresentIn(Shard, k)
       /\ RePutOf(k, v).ok


(***************************************************************************)
(* Query statistics.                                                       *)
(***************************************************************************)
\* what a step does to the two statistics: the first step of a lookup adds
\* 1 to queryCnt, its last step adds 1 to missCnt when the probe ended
\* without a match, and no other step changes either
StatStep ==
  /\ \A t \in Readers :
       LET a == readers[t].pc
           b == readers'[t].pc
       IN /\ (a = "idle" /\ b = "counted")
               => (queryCnt' = queryCnt + 1 /\ missCnt' = missCnt)
          /\ (a = "counted" /\ b = "missed")
               => /\ UNCHANGED << queryCnt, missCnt >>
                  /\ LookupEnds(readers[t].op, readers[t].key).kind = "empty"
          /\ (a = "counted" /\ b = "idle")
               => /\ UNCHANGED << queryCnt, missCnt >>
                  /\ LookupEnds(readers[t].op, readers[t].key).kind = "hit"
          /\ (a = "missed" /\ b = "idle")
               => (missCnt' = missCnt + 1 /\ queryCnt' = queryCnt)
  /\ readers' = readers => UNCHANGED << queryCnt, missCnt >>

\* C39: each Has or Get adds exactly 1 to queryCnt, and exactly 1 to missCnt
\* if and only if it returns a miss; missCnt <= queryCnt in every state of
\* overlapping lookups, and Put, RePut, Delete, Clear, Eliminate and GCCopy
\* change neither counter.
QueryStatistics == [](missCnt <= queryCnt) /\ [][StatStep]_vars
\* one lookup has missed and not yet counted its miss while another has
\* counted its query and not yet probed, with a key stored
QueryStatisticsWitness ==
  \E t \in Readers : \E u \in Readers :
    /\ readers[t].pc = "missed"
    /\ readers[u].pc = "counted"
    /\ queryCnt = missCnt + 2
    /\ items >= 1

====
